---------------------------- MODULE Spec2Model ----------------------------
(***************************************************************************)
(* A model of the SmartReturns prediction engine                           *)
(* (src/ml/prediction_engine.py).                                          *)
(*                                                                         *)
(* Conventions                                                             *)
(*  - A Python str is a sequence of one-character strings, so that         *)
(*    str.lower() is computed character by character.                      *)
(*  - Money is an integer number of paise (1/100 rupee); a Python          *)
(*    round(x, 2) of a product is computed on the exact product, and an    *)
(*    exact half (where the float result depends on the binary             *)
(*    representation of the factors) may go either way.                    *)
(*  - The scikit-learn estimators are collaborators: the model keeps of    *)
(*    each what the engine's control flow depends on (whether it is        *)
(*    fitted, which classes it was fitted on) and lets its numeric output  *)
(*    range over a bounded set.                                            *)
(*  - A raised Python exception is the "error" field of the result.        *)
(***************************************************************************)
EXTENDS Integers, Sequences, FiniteSets, TLC

VARIABLES
    disposition_predictor,  \* DispositionPredictor: is_trained, label_encoder, scaler, model
    value_forecaster,       \* ValueForecaster: is_trained, scaler, model
    anomaly_detector,       \* AnomalyDetector: threshold, baseline_stats
    risk_assessor,          \* RiskAssessment: risk_factors
    models_trained,         \* SmartReturnsPredictionEngine.models_trained
    model_file,             \* the file save_models writes: <<>> or <<its content>>
    event_loop,             \* the server's event loop: the coroutine that runs, the tasks that wait
    history,                \* which calls have happened so far (not program state)
    input,                  \* the argument a pure function is applied to (function specs)
    result                  \* what the last call returned or raised

vars ==
    <<disposition_predictor, value_forecaster, anomaly_detector, risk_assessor,
      models_trained, model_file, event_loop, history, input, result>>

-----------------------------------------------------------------------------
(* Bounds *)

\* Largest number of samples in one training set.
MaxSamples == 9

\* Largest number of periods asked of forecast.
MaxPeriods == 4

\* Largest number of rows of a historical time series.
MaxRows == 3

\* Longest string of the small alphabet given to an encoder.
MaxStrLen == 3

\* Largest number of items given to optimize_hub_assignment.
MaxItems == 3

\* Largest capacity of a hub.
MaxCapacity == 2

\* Largest number of predict calls on one record between two trainings.
MaxCalls == 2

\* Largest number of background training tasks that wait at a time.
MaxPending == 2

-----------------------------------------------------------------------------
(* Strings *)

LowerChar(c) ==
    CASE c = "A" -> "a" [] c = "B" -> "b" [] c = "C" -> "c" [] c = "D" -> "d"
      [] c = "E" -> "e" [] c = "F" -> "f" [] c = "G" -> "g" [] c = "H" -> "h"
      [] c = "I" -> "i" [] c = "J" -> "j" [] c = "K" -> "k" [] c = "L" -> "l"
      [] c = "M" -> "m" [] c = "N" -> "n" [] c = "O" -> "o" [] c = "P" -> "p"
      [] c = "Q" -> "q" [] c = "R" -> "r" [] c = "S" -> "s" [] c = "T" -> "t"
      [] c = "U" -> "u" [] c = "V" -> "v" [] c = "W" -> "w" [] c = "X" -> "x"
      [] c = "Y" -> "y" [] c = "Z" -> "z" [] OTHER -> c

\* str.lower()
Lower(s) == [i \in 1..Len(s) |-> LowerChar(s[i])]

UpperChar(c) ==
    CASE c = "a" -> "A" [] c = "b" -> "B" [] c = "c" -> "C" [] c = "d" -> "D"
      [] c = "e" -> "E" [] c = "f" -> "F" [] c = "g" -> "G" [] c = "h" -> "H"
      [] c = "i" -> "I" [] c = "j" -> "J" [] c = "k" -> "K" [] c = "l" -> "L"
      [] c = "m" -> "M" [] c = "n" -> "N" [] c = "o" -> "O" [] c = "p" -> "P"
      [] c = "q" -> "Q" [] c = "r" -> "R" [] c = "s" -> "S" [] c = "t" -> "T"
      [] c = "u" -> "U" [] c = "v" -> "V" [] c = "w" -> "W" [] c = "x" -> "X"
      [] c = "y" -> "Y" [] c = "z" -> "Z" [] OTHER -> c

\* Every spelling of w that differs from it only in letter case.
CaseVariants(w) ==
    { [i \in 1..Len(w) |-> IF i \in m THEN UpperChar(w[i]) ELSE w[i]] :
        m \in SUBSET (1..Len(w)) }

\* Every string of at most n characters over the alphabet A.
StringsUpTo(A, n) == UNION { [1..k -> A] : k \in 0..n }

s_new          == <<"n","e","w">>
s_lightly_used == <<"l","i","g","h","t","l","y","-","u","s","e","d">>
s_good         == <<"g","o","o","d">>
s_fair         == <<"f","a","i","r">>
s_poor         == <<"p","o","o","r">>
s_defective    == <<"d","e","f","e","c","t","i","v","e">>
s_resale       == <<"r","e","s","a","l","e">>
s_repair       == <<"r","e","p","a","i","r">>
s_recycle      == <<"r","e","c","y","c","l","e">>
s_donate       == <<"d","o","n","a","t","e">>
s_high         == <<"h","i","g","h">>
s_medium       == <<"m","e","d","i","u","m">>
s_low          == <<"l","o","w">>
s_Electronics  == <<"E","l","e","c","t","r","o","n","i","c","s">>
s_Appliances   == <<"A","p","p","l","i","a","n","c","e","s">>
s_Fashion      == <<"F","a","s","h","i","o","n">>
s_HomeKitchen  == <<"H","o","m","e"," ","&"," ","K","i","t","c","h","e","n">>
s_Books        == <<"B","o","o","k","s">>
s_Toys         == <<"T","o","y","s">>
\* Strings no table of the engine knows.
s_scrap        == <<"s","c","r","a","p">>
s_mint         == <<"m","i","n","t">>
s_fashion      == <<"f","a","s","h","i","o","n">>
s_Resale       == <<"R","e","s","a","l","e">>
s_DONATE       == <<"D","O","N","A","T","E">>
s_Good         == <<"G","o","o","d">>
s_HIGH         == <<"H","I","G","H">>

None == "None"


\* The ways a call can fail (the Python exception and the call that raises it).
ErrNotTrained  == "ValueError: Model must be trained"
ErrSplit       == "ValueError: train_test_split"
ErrCrossVal    == "ValueError: cross_val_score"
ErrUnseenLabel == "ValueError: LabelEncoder.inverse_transform"
ErrNotFitted   == "StandardScaler.transform: the scaler is not fitted"
ErrEmptyArray  == "ValueError: StandardScaler array with 0 samples"

-----------------------------------------------------------------------------
(* Arithmetic *)

Max2(a, b) == IF a >= b THEN a ELSE b
Min2(a, b) == IF a <= b THEN a ELSE b
Abs(a) == IF a >= 0 THEN a ELSE -a

RECURSIVE SumOver(_, _)
\* The sum of f over the finite set S.
SumOver(f, S) ==
    IF S = {} THEN 0
    ELSE LET x == CHOOSE y \in S : TRUE IN f[x] + SumOver(f, S \ {x})

RECURSIVE SumSeq(_)
SumSeq(s) == IF s = <<>> THEN 0 ELSE Head(s) + SumSeq(Tail(s))

\* round(p / d, ...) for p >= 0, d > 0 as a float computation may give it: the
\* nearest integer, and either neighbour when p / d is an exact half.
RoundHalfAny(p, d) ==
    LET q == p \div d
        r == p % d
    IN  IF 2 * r < d THEN {q} ELSE IF 2 * r > d THEN {q + 1} ELSE {q, q + 1}

\* Python 3 round(p / d) when p / d is exactly representable: halves go to the
\* even neighbour.
RoundHalfEven(p, d) ==
    LET q == p \div d
        r == p % d
    IN  IF 2 * r < d THEN q
        ELSE IF 2 * r > d THEN q + 1
        ELSE IF q % 2 = 0 THEN q ELSE q + 1

RECURSIVE IsqrtIn(_, _, _)
\* The largest r in lo..hi with r * r <= x, by bisection.
IsqrtIn(x, lo, hi) ==
    IF lo = hi THEN lo
    ELSE LET mid == (lo + hi + 1) \div 2
         IN  IF mid * mid <= x THEN IsqrtIn(x, mid, hi) ELSE IsqrtIn(x, lo, mid - 1)

\* floor(sqrt(x)), for 0 <= x < 2^31
Isqrt(x) == IsqrtIn(x, 0, Min2(x, 46340))

-----------------------------------------------------------------------------
(* FeatureEngineering *)

\* _encode_condition looking the string up as given, without lower().
EncodeConditionCaseSensitive(condition) ==
    CASE condition = s_new          -> 10
      [] condition = s_lightly_used -> 8
      [] condition = s_good         -> 6
      [] condition = s_fair         -> 4
      [] condition = s_poor         -> 2
      [] condition = s_defective    -> 0
      [] OTHER                      -> 5

\* _encode_condition, in tenths.
EncodeCondition(condition) ==
    LET c == Lower(condition)
    IN  CASE c = s_new          -> 10
          [] c = s_lightly_used -> 8
          [] c = s_good         -> 6
          [] c = s_fair         -> 4
          [] c = s_poor         -> 2
          [] c = s_defective    -> 0
          [] OTHER              -> 5

-----------------------------------------------------------------------------
(* DispositionPredictor: the derived metrics of a prediction *)

\* condition_multiplier.get(item.condition.lower(), 0.3), in twentieths.
ConditionMultiplier(condition) ==
    LET c == Lower(condition)
    IN  CASE c = s_new          -> 15
          [] c = s_lightly_used -> 11
          [] c = s_good         -> 8
          [] c = s_fair         -> 5
          [] c = s_poor         -> 2
          [] c = s_defective    -> 1
          [] OTHER              -> 6

\* action_multiplier without its 'donate' entry: donate falls to the default.
ActionMultiplierNoDonate(action) ==
    LET a == Lower(action)
    IN  CASE a = s_resale  -> 20
          [] a = s_repair  -> 12
          [] a = s_recycle -> 1
          [] OTHER         -> 6

\* action_multiplier.get(action.lower(), 0.3), in twentieths.
ActionMultiplier(action) ==
    LET a == Lower(action)
    IN  CASE a = s_resale  -> 20
          [] a = s_repair  -> 12
          [] a = s_recycle -> 1
          [] a = s_donate  -> 0
          [] OTHER         -> 6

\* demand_adjustment, in tenths.
DemandAdjustment(market_demand) ==
    LET d == Lower(market_demand)
    IN  CASE d = s_high   -> 12
          [] d = s_medium -> 10
          [] d = s_low    -> 8
          [] OTHER        -> 10

\* _calculate_estimated_value without the market demand adjustment.
CalculateEstimatedValueNoDemand(item, action) ==
    RoundHalfAny(item.original_price * ConditionMultiplier(item.condition)
                   * ActionMultiplier(action) * 10,
                 40)

\* _calculate_estimated_value: the values round(product, 2) may take, in paise.
\* original_price is in rupees; the product of the four factors is in 1/4000
\* rupee, that is 1/40 paisa.
CalculateEstimatedValue(item, action) ==
    RoundHalfAny(item.original_price * ConditionMultiplier(item.condition)
                   * ActionMultiplier(action) * DemandAdjustment(item.market_demand),
                 40)

\* _calculate_co2_impact, in hundredths of a kg.
CalculateCo2Impact(item, action) ==
    LET a == Lower(action)
        factor == CASE a = s_resale  -> 30
                    [] a = s_repair  -> 20
                    [] a = s_recycle -> 10
                    [] a = s_donate  -> 25
                    [] OTHER         -> 10
    IN  RoundHalfAny(item.original_price * factor, 100)

\* _calculate_waste_impact, in hundredths of a kg.
CalculateWasteImpact(item, action) ==
    LET a == Lower(action)
        c == item.category
        base_weight == CASE c = s_Electronics -> 8
                         [] c = s_Appliances  -> 25
                         [] c = s_Fashion     -> 3
                         [] c = s_HomeKitchen -> 6
                         [] OTHER             -> 5
        factor == CASE a = s_resale  -> 95
                    [] a = s_repair  -> 85
                    [] a = s_recycle -> 60
                    [] a = s_donate  -> 90
                    [] OTHER         -> 50
    IN  RoundHalfAny(base_weight * factor, 10)

\* _estimate_processing_time, in days.
EstimateProcessingTime(action, category) ==
    LET a == Lower(action)
        base_time == CASE a = s_resale  -> 2
                       [] a = s_repair  -> 5
                       [] a = s_recycle -> 1
                       [] a = s_donate  -> 3
                       [] OTHER         -> 3
        multiplier == CASE category = s_Electronics -> 13
                        [] category = s_Appliances  -> 15
                        [] category = s_Fashion     -> 8
                        [] category = s_HomeKitchen -> 10
                        [] OTHER                    -> 10
    IN  Max2(1, RoundHalfEven(base_time * multiplier, 10))

\* _select_marketplace with no marketplace for the other categories.
SelectMarketplaceNoDefault(action, category, value) ==
    IF Lower(action) # s_resale THEN None
    ELSE IF value > 1000000 THEN "Flipkart"
    ELSE IF value > 200000 THEN "Flipkart 2GUD"
    ELSE IF category = s_Fashion THEN "Myntra"
    ELSE IF category = s_Electronics THEN "Amazon Renewed"
    ELSE None

\* _select_marketplace with the thresholds compared by >=.
SelectMarketplaceInclusive(action, category, value) ==
    IF Lower(action) # s_resale THEN None
    ELSE IF value >= 1000000 THEN "Flipkart"
    ELSE IF value >= 200000 THEN "Flipkart 2GUD"
    ELSE IF category = s_Fashion THEN "Myntra"
    ELSE IF category = s_Electronics THEN "Amazon Renewed"
    ELSE "Walmart Marketplace"

\* _select_marketplace; value is in paise.
SelectMarketplace(action, category, value) ==
    IF Lower(action) # s_resale THEN None
    ELSE IF value > 1000000 THEN "Flipkart"
    ELSE IF value > 200000 THEN "Flipkart 2GUD"
    ELSE IF category = s_Fashion THEN "Myntra"
    ELSE IF category = s_Electronics THEN "Amazon Renewed"
    ELSE "Walmart Marketplace"

\* _generate_reasoning: the condition descriptor and which sentence is used.
GenerateReasoning(item, action) ==
    LET c == Lower(item.condition)
        condition_desc == CASE c = s_new          -> "excellent"
                            [] c = s_lightly_used -> "very good"
                            [] c = s_good         -> "good"
                            [] c = s_fair         -> "acceptable"
                            [] c = s_poor         -> "poor"
                            [] c = s_defective    -> "defective"
                            [] OTHER              -> "unknown"
        sentence == CASE action = s_resale  -> "resale"
                      [] action = s_repair  -> "repair"
                      [] action = s_recycle -> "recycle"
                      [] action = s_donate  -> "donate"
                      [] OTHER              -> "confidence"
    IN  <<condition_desc, sentence>>

-----------------------------------------------------------------------------
(* DispositionPredictor.train *)

\* The action labels of the training samples, in code point order (the order in
\* which LabelEncoder.fit_transform, through np.unique, numbers them).
LabelOrder == <<s_repair, s_resale, s_scrap>>

LabelSet == { LabelOrder[i] : i \in 1..Len(LabelOrder) }

\* A training set, as the number of samples of each label: the control flow of
\* train depends on the samples only through these counts.
TrainingSets ==
    { d \in [LabelSet -> 0..MaxSamples] : SumOver(d, LabelSet) <= MaxSamples }

NSamples(d) == SumOver(d, DOMAIN d)

\* label_encoder.classes_ after fit_transform(y): the distinct labels, sorted.
FitLabels(d) == SelectSeq(LabelOrder, LAMBDA l : d[l] > 0)

NClasses(d) == Len(FitLabels(d))

\* The size of the least populated class (0 for an empty training set).
MinClassCount(d) ==
    IF NClasses(d) = 0 THEN 0
    ELSE CHOOSE m \in { d[l] : l \in { x \in DOMAIN d : d[x] > 0 } } :
            \A l \in DOMAIN d : d[l] > 0 => m <= d[l]

\* train_test_split(test_size=0.2): n_test = ceil(0.2 * n), n_train = n - n_test.
NTest(n) == (n + 4) \div 5
NTrain(n) == n - NTest(n)

\* train_test_split(..., stratify=y_encoded) raises ValueError: the train set
\* would be empty, a class has a single member, or a part is smaller than the
\* number of classes.
SplitFails(d) ==
    LET n == NSamples(d)
    IN  \/ NTrain(n) = 0
        \/ MinClassCount(d) < 2
        \/ NTrain(n) < NClasses(d)
        \/ NTest(n) < NClasses(d)

\* The per-class sizes the stratified split may give the train part: each class
\* gets floor(count * n_train / n), and the classes with the largest remainders
\* one more each until n_train are drawn (ties are broken by the seeded random
\* generator).
TrainCounts(d) ==
    LET n == NSamples(d)
        nt == NTrain(n)
        C == { l \in DOMAIN d : d[l] > 0 }
        floored == [l \in C |-> (d[l] * nt) \div n]
        remainder == [l \in C |-> (d[l] * nt) % n]
        need == nt - SumOver(floored, C)
    IN  { [l \in C |-> floored[l] + (IF l \in S THEN 1 ELSE 0)] :
            S \in { T \in SUBSET C :
                      /\ Cardinality(T) = need
                      /\ \A a \in T, b \in C \ T : remainder[a] >= remainder[b] } }

\* cross_val_score(cv=5) on a classifier uses StratifiedKFold(5), which raises
\* ValueError when every class of y_train has fewer than 5 members.
CrossValFails(counts) == \A l \in DOMAIN counts : counts[l] < 5

\* How far train gets on d: the exception that ends it, or None.
TrainOutcomes(d) ==
    IF SplitFails(d) THEN {ErrSplit}
    ELSE { IF CrossValFails(tc) THEN ErrCrossVal ELSE None : tc \in TrainCounts(d) }

\* train setting is_trained right after the forest is fitted, before the
\* cross-validation.
TrainedPredictorFlagBeforeCV(self, d, err) ==
    [ is_trained    |-> IF err = ErrSplit THEN self.is_trained ELSE TRUE,
      label_encoder |-> FitLabels(d),
      scaler        |-> IF err = ErrSplit THEN self.scaler ELSE TRUE,
      model         |-> IF err = ErrSplit THEN self.model ELSE FitLabels(d) ]

\* The predictor after train(d) ended with outcome err: the label encoder is
\* fitted first (line 238), the scaler and the forest after the split (lines
\* 246-250), and is_trained is set after the cross-validation (line 259).
TrainedPredictor(self, d, err) ==
    [ is_trained    |-> IF err = None THEN TRUE ELSE self.is_trained,
      label_encoder |-> FitLabels(d),
      scaler        |-> IF err = ErrSplit THEN self.scaler ELSE TRUE,
      model         |-> IF err = ErrSplit THEN self.model ELSE FitLabels(d) ]

\* DispositionPredictor.train(training_data)
Train(d) ==
    \E err \in TrainOutcomes(d) :
        /\ disposition_predictor' = TrainedPredictor(disposition_predictor, d, err)
        /\ history' = [ history EXCEPT
                           !.train_completed = @ \/ err = None,
                           !.multi_label_train = @ \/ NClasses(d) >= 2 ]
        /\ result' = [ op |-> "train", error |-> err, n_samples |-> NSamples(d),
                       n_labels |-> NClasses(d), min_count |-> MinClassCount(d) ]
        /\ UNCHANGED <<value_forecaster, anomaly_detector, input,
                       risk_assessor, models_trained, model_file, event_loop>>

-----------------------------------------------------------------------------
(* DispositionPredictor.predict *)

\* np.max(probabilities), in percent.
Confidences == {50, 100}

\* The PredictionResult for item when the classifier's label is action.
PredictionResults(item, action, confidence) ==
    { [ recommended_action |-> action,
        confidence         |-> confidence,
        estimated_value    |-> ev,
        co2_saved          |-> co2,
        landfill_avoided   |-> waste,
        processing_time    |-> EstimateProcessingTime(action, item.category),
        marketplace        |-> SelectMarketplace(action, item.category, ev),
        reasoning          |-> GenerateReasoning(item, action) ] :
      ev \in CalculateEstimatedValue(item, action),
      co2 \in CalculateCo2Impact(item, action),
      waste \in CalculateWasteImpact(item, action) }

\* What predict(item) may return or raise. model holds the labels the forest was
\* fitted on: it predicts one of their class ids, and the label encoder decodes
\* the id with the classes it holds now.
PredictOutcomes(self, item) ==
    IF ~self.is_trained THEN { [error |-> ErrNotTrained] }
    ELSE IF ~self.scaler THEN { [error |-> ErrNotFitted] }
    ELSE UNION { IF id > Len(self.label_encoder)
                 THEN { [error |-> ErrUnseenLabel] }
                 ELSE { [error |-> None, value |-> r] :
                        r \in UNION { PredictionResults(item, self.label_encoder[id], c) :
                                      c \in Confidences } } :
                 id \in 1..Len(self.model) }

\* DispositionPredictor.predict(return_item)
Predict(item) ==
    \E out \in PredictOutcomes(disposition_predictor, item) :
        /\ result' = [op |-> "predict", item |-> item] @@ out
        /\ UNCHANGED <<disposition_predictor, value_forecaster, anomaly_detector, history, input,
                       risk_assessor, models_trained, model_file, event_loop>>

\* SmartReturnsPredictionEngine.predict_disposition(return_item)
PredictDisposition(item) ==
    \E out \in PredictOutcomes(disposition_predictor, item) :
        /\ result' = [op |-> "predict_disposition", item |-> item] @@ out
        /\ UNCHANGED <<disposition_predictor, value_forecaster, anomaly_detector, history, input,
                       risk_assessor, models_trained, model_file, event_loop>>

-----------------------------------------------------------------------------
(* The disposition predictor of an engine, from construction *)

\* The records given to predict in Spec.
Items ==
    { [category |-> s_Electronics, condition |-> s_new, original_price |-> 15000,
       market_demand |-> s_high],
      [category |-> s_Fashion, condition |-> s_Good, original_price |-> 1500,
       market_demand |-> s_low] }

\* AnomalyDetector.__init__: threshold 2.5 (in tenths) and baseline_stats = {}.
\* A dict is a function from its keys.
NewAnomalyDetector == [threshold |-> 25, baseline_stats |-> [k \in {} |-> 0]]

\* self.risk_factors, in twentieths
risk_factors ==
    [ volume_risk |-> 6, value_risk |-> 5, quality_risk |-> 4, market_risk |-> 3,
      operational_risk |-> 2 ]

\* RiskAssessment.__init__
NewRiskAssessment == [risk_factors |-> risk_factors]

\* No server: nothing runs and nothing waits.
NoEventLoop == [running |-> <<>>, pending |-> 0]

NoResult == [op |-> "none", error |-> None]

\* Nothing has been called.
NoHistory ==
    [ train_completed |-> FALSE,            \* DispositionPredictor.train has returned
      multi_label_train |-> FALSE,          \* it was called with 2 or more distinct labels
      forecaster_train_completed |-> FALSE  \* ValueForecaster.train has returned
    ]

\* DispositionPredictor.__init__ and ValueForecaster.__init__
Init ==
    /\ disposition_predictor =
         [is_trained |-> FALSE, label_encoder |-> <<>>, scaler |-> FALSE, model |-> <<>>]
    /\ value_forecaster = [is_trained |-> FALSE, scaler |-> FALSE, model |-> FALSE]
    /\ anomaly_detector = NewAnomalyDetector
    /\ risk_assessor = NewRiskAssessment
    /\ models_trained = FALSE
    /\ model_file = <<>>
    /\ event_loop = NoEventLoop
    /\ history = NoHistory
    /\ input = None
    /\ result = NoResult

Next ==
    \/ \E d \in TrainingSets : Train(d)
    \/ \E item \in Items : Predict(item)
    \/ \E item \in Items : PredictDisposition(item)

Spec == Init /\ [][Next]_vars

-----------------------------------------------------------------------------
(* ValueForecaster *)

\* The forecaster after train on a series of n rows ended with outcome err.
\* StandardScaler.fit resets the scaler before it validates its input, so a
\* fit_transform that raises (line 460) leaves the scaler unfitted.
TrainedForecaster(self, err) ==
    IF err = None
    THEN [is_trained |-> TRUE, scaler |-> TRUE, model |-> TRUE]
    ELSE [self EXCEPT !.scaler = FALSE]

\* split_idx = round(len(features) * 0.8)
SplitIdxRounded(n) == (n * 8 + 5) \div 10

\* split_idx = int(len(features) * 0.8)
SplitIdx(n) == (n * 8) \div 10

\* How train ends on a series of n rows: the scaler refuses an empty X_train.
ForecasterTrainOutcome(n) == IF SplitIdx(n) = 0 THEN ErrEmptyArray ELSE None

\* The historical series of n rows: a row is its position in the series.
Series(n) == [i \in 1..n |-> i]

\* features[:split_idx] and features[split_idx:] (line 456)
XTrain(features) == SubSeq(features, 1, SplitIdx(Len(features)))
XTest(features) == SubSeq(features, SplitIdx(Len(features)) + 1, Len(features))

\* ValueForecaster.train(historical_data), on a series of n well-formed rows
ForecasterTrain(n) ==
    LET err == ForecasterTrainOutcome(n)
    IN  /\ value_forecaster' = TrainedForecaster(value_forecaster, err)
        /\ result' = [ op |-> "forecaster_train", error |-> err, n_rows |-> n,
                       n_fit |-> SplitIdx(n), n_held_out |-> n - SplitIdx(n),
                       X_train |-> XTrain(Series(n)), X_test |-> XTest(Series(n)) ]
        /\ history' = [history EXCEPT !.forecaster_train_completed = @ \/ err = None]
        /\ UNCHANGED <<disposition_predictor, anomaly_detector, input,
                       risk_assessor, models_trained, model_file, event_loop>>

\* The values the regressor may predict for a period.
PredValues == {-1, 3}

\* n^2 times np.var(predictions)
ScaledVariance(preds) ==
    LET n == Len(preds)
    IN  n * SumSeq([i \in 1..n |-> preds[i] * preds[i]]) - SumSeq(preds) * SumSeq(preds)

\* 1.96 * std_error with std_error = np.std(predictions) * 0.1, in thousandths
\* (rounded down).
BandWidth(preds) ==
    (196 * Isqrt(10000 * ScaledVariance(preds))) \div (100 * Len(preds))

\* forecast_data (lines 508-516), values in thousandths.
ForecastData(preds) ==
    LET width == BandWidth(preds)
    IN  [ i \in 1..Len(preds) |->
            [ period          |-> (i - 1) + 1,
              predicted_value |-> 1000 * preds[i],
              lower_bound     |-> 1000 * preds[i] - width,
              upper_bound     |-> 1000 * preds[i] + width ] ]

\* _analyze_trend: the slope of the least-squares line through (i, preds[i]),
\* i = 0..n-1, against +-0.05.
AnalyzeTrend(preds) ==
    LET n == Len(preds)
        sx == SumSeq([i \in 1..n |-> i - 1])
        sxx == SumSeq([i \in 1..n |-> (i - 1) * (i - 1)])
        sxy == SumSeq([i \in 1..n |-> (i - 1) * preds[i]])
        num == n * sxy - sx * SumSeq(preds)
        den == n * sxx - sx * sx
    IN  IF n < 2 THEN "stable"
        ELSE IF 20 * num > den THEN "increasing"
        ELSE IF 20 * num < -den THEN "decreasing"
        ELSE "stable"

\* _calculate_seasonality without the min(..., 1.0).
CalculateSeasonalityUnclamped(preds) ==
    LET s == SumSeq(preds)
    IN  IF Len(preds) < 4 THEN 0
        ELSE IF s > 0 THEN (1000 * ScaledVariance(preds)) \div (s * s)
        ELSE 0

\* _calculate_seasonality, in thousandths (rounded down).
CalculateSeasonality(preds) ==
    LET s == SumSeq(preds)
    IN  IF Len(preds) < 4 THEN 0
        ELSE IF s > 0 THEN Min2((1000 * ScaledVariance(preds)) \div (s * s), 1000)
        ELSE 0

\* forecast without its is_trained guard.
ForecastOutcomesNoGuard(self, periods) ==
    IF ~self.scaler THEN { [error |-> ErrNotFitted] }
    ELSE IF periods <= 0 THEN { [error |-> ErrEmptyArray] }
    ELSE { [ error |-> None,
             value |-> [ predictions        |-> ForecastData(preds),
                         trend              |-> AnalyzeTrend(preds),
                         seasonality_factor |-> CalculateSeasonality(preds) ] ] :
           preds \in [1..periods -> PredValues] }

\* What forecast(periods, category) may return or raise.
ForecastOutcomes(self, periods) ==
    IF ~self.is_trained THEN { [error |-> ErrNotTrained] }
    ELSE IF ~self.scaler THEN { [error |-> ErrNotFitted] }
    ELSE IF periods <= 0 THEN { [error |-> ErrEmptyArray] }
    ELSE { [ error |-> None,
             value |-> [ predictions        |-> ForecastData(preds),
                         trend              |-> AnalyzeTrend(preds),
                         seasonality_factor |-> CalculateSeasonality(preds) ] ] :
           preds \in [1..periods -> PredValues] }

\* ValueForecaster.forecast(periods, category)
Forecast(periods, category) ==
    \E out \in ForecastOutcomes(value_forecaster, periods) :
        /\ result' = [op |-> "forecast", periods |-> periods, category |-> category] @@ out
        /\ UNCHANGED <<disposition_predictor, value_forecaster, anomaly_detector, history, input,
                       risk_assessor, models_trained, model_file, event_loop>>

\* SmartReturnsPredictionEngine.forecast_demand(periods, category)
ForecastDemand(periods, category) ==
    \E out \in ForecastOutcomes(value_forecaster, periods) :
        /\ result' = [op |-> "forecast_demand", periods |-> periods,
                      category |-> category] @@ out
        /\ UNCHANGED <<disposition_predictor, value_forecaster, anomaly_detector, history, input,
                       risk_assessor, models_trained, model_file, event_loop>>

\* The category argument left at its default (category: str = None): a sequence
\* that is no string, since strings are sequences of one-character strings.
NoCategory == <<None>>

ForecastCategories == {NoCategory, s_Electronics}

ForecastNext ==
    \/ \E n \in 0..MaxRows : ForecasterTrain(n)
    \/ \E periods \in -1..MaxPeriods, category \in ForecastCategories :
          Forecast(periods, category)
    \/ \E periods \in -1..MaxPeriods, category \in ForecastCategories :
          ForecastDemand(periods, category)

\* The value forecaster of an engine, from construction.
ForecastSpec == Init /\ [][ForecastNext]_vars

-----------------------------------------------------------------------------
(* One predict call of a trained predictor, on any record *)

\* The labels of a training set that holds known actions, other spellings of
\* them and an unknown action, in code point order.
WideLabelOrder ==
    <<s_DONATE, s_Resale, s_donate, s_recycle, s_repair, s_resale, s_scrap>>

WideCategories == {s_Electronics, s_Fashion, s_Appliances, s_Books, s_fashion}

WideConditions ==
    {s_new, s_lightly_used, s_good, s_fair, s_poor, s_defective, s_Good, s_mint}

WideDemands == {s_high, s_medium, s_low, s_HIGH, s_mint}

\* original_price, in rupees
WidePrices == {1, 1500, 5000, 15000, 25000}

WideItems ==
    [ category : WideCategories, condition : WideConditions,
      original_price : WidePrices, market_demand : WideDemands ]

\* The predictor after a train that succeeded on samples of every label of
\* WideLabelOrder, and a record to predict.
PredictInit ==
    /\ disposition_predictor =
         [ is_trained |-> TRUE, label_encoder |-> WideLabelOrder, scaler |-> TRUE,
           model |-> WideLabelOrder ]
    /\ value_forecaster = [is_trained |-> FALSE, scaler |-> FALSE, model |-> FALSE]
    /\ anomaly_detector = NewAnomalyDetector
    /\ risk_assessor = NewRiskAssessment
    /\ models_trained = FALSE
    /\ model_file = <<>>
    /\ event_loop = NoEventLoop
    /\ history = [NoHistory EXCEPT !.train_completed = TRUE, !.multi_label_train = TRUE]
    /\ input \in WideItems
    /\ result = NoResult

PredictNext ==
    \/ result = NoResult /\ Predict(input)
    \/ result = NoResult /\ PredictDisposition(input)

PredictSpec == PredictInit /\ [][PredictNext]_vars

-----------------------------------------------------------------------------
(* One call of _encode_condition, on any string *)

ConditionNames == {s_new, s_lightly_used, s_good, s_fair, s_poor, s_defective}

\* The condition names in every letter case, and every short string over a
\* small alphabet.
ConditionStrings ==
    UNION { CaseVariants(w) : w \in ConditionNames }
      \cup StringsUpTo({"n", "N", "e", "w", "-", " "}, MaxStrLen)
      \cup {s_mint, s_scrap}

\* FeatureEngineering._encode_condition(condition)
EncodeConditionCall ==
    /\ result = NoResult
    /\ result' = [ op |-> "_encode_condition", error |-> None,
                   value |-> EncodeCondition(input) ]
    /\ UNCHANGED <<disposition_predictor, value_forecaster, anomaly_detector, history, input,
                   risk_assessor, models_trained, model_file, event_loop>>

EncodeInit ==
    /\ disposition_predictor =
         [is_trained |-> FALSE, label_encoder |-> <<>>, scaler |-> FALSE, model |-> <<>>]
    /\ value_forecaster = [is_trained |-> FALSE, scaler |-> FALSE, model |-> FALSE]
    /\ anomaly_detector = NewAnomalyDetector
    /\ risk_assessor = NewRiskAssessment
    /\ models_trained = FALSE
    /\ model_file = <<>>
    /\ event_loop = NoEventLoop
    /\ history = NoHistory
    /\ input \in ConditionStrings
    /\ result = NoResult

EncodeNext == EncodeConditionCall

EncodeSpec == EncodeInit /\ [][EncodeNext]_vars

-----------------------------------------------------------------------------
(* FeatureEngineering.create_features *)
(* Scores are in tenths; a datetime is its number of days after Monday      *)
(* 2024-01-01.                                                              *)

s_online     == <<"o","n","l","i","n","e">>
s_mobile_app == <<"m","o","b","i","l","e","-","a","p","p">>
s_store      == <<"s","t","o","r","e">>
s_Store      == <<"S","t","o","r","e">>
s_kiosk      == <<"k","i","o","s","k">>

\* _encode_category: the category as spelled, no lower().
EncodeCategory(category) ==
    CASE category = s_Electronics -> 9
      [] category = s_Appliances  -> 8
      [] category = s_Fashion     -> 6
      [] category = s_HomeKitchen -> 5
      [] category = s_Books       -> 3
      [] category = s_Toys        -> 4
      [] OTHER                    -> 5

EncodeChannel(channel) ==
    LET c == Lower(channel)
    IN  CASE c = s_online     -> 8
          [] c = s_mobile_app -> 9
          [] c = s_store      -> 6
          [] OTHER            -> 7

GetPriceCategory(price) ==
    IF price < 500 THEN 2
    ELSE IF price < 2000 THEN 4
    ELSE IF price < 10000 THEN 6
    ELSE IF price < 50000 THEN 8
    ELSE 10

EncodeSeasonality(seasonality) ==
    LET c == Lower(seasonality)
    IN  CASE c = s_high   -> 10
          [] c = s_medium -> 6
          [] c = s_low    -> 3
          [] OTHER        -> 6

EncodeDemand(demand) ==
    LET c == Lower(demand)
    IN  CASE c = s_high   -> 10
          [] c = s_medium -> 6
          [] c = s_low    -> 3
          [] OTHER        -> 6

\* word in s
Contains(s, word) ==
    \E i \in 0..(Len(s) - Len(word)) : SubSeq(s, i + 1, i + Len(word)) = word

negative_words ==
    { s_defective, <<"b","r","o","k","e","n">>, <<"d","a","m","a","g","e","d">>, s_poor,
      <<"b","a","d">>, <<"t","e","r","r","i","b","l","e">>, <<"a","w","f","u","l">> }

neutral_words ==
    { <<"s","i","z","e">>, <<"c","o","l","o","r">>,
      <<"c","h","a","n","g","e","d"," ","m","i","n","d">>,
      <<"d","u","p","l","i","c","a","t","e">>, <<"w","r","o","n","g">> }

AnalyzeReasonSentiment(reason) ==
    LET reason_lower == Lower(reason)
        negative_count == Cardinality({ w \in negative_words : Contains(reason_lower, w) })
        neutral_count == Cardinality({ w \in neutral_words : Contains(reason_lower, w) })
    IN  IF negative_count > 0 THEN 2
        ELSE IF neutral_count > 0 THEN 6
        ELSE 8

\* datetime.weekday(): Monday is 0.
Weekday(date) == date % 7

\* The days of 2024 before each month.
DaysBeforeMonth == <<0, 31, 60, 91, 121, 152, 182, 213, 244, 274, 305, 335>>

\* datetime.month, of a date of 2024.
Month(date) ==
    CHOOSE m \in 1..12 :
        /\ DaysBeforeMonth[m] <= date
        /\ m < 12 => date < DaysBeforeMonth[m + 1]

\* is_weekend as the weekday itself.
IsWeekendWeekday(date) == 10 * Weekday(date)

\* float(return_date.weekday() >= 5)
IsWeekend(date) == IF Weekday(date) >= 5 THEN 10 ELSE 0

\* float(b)
Float(b) == IF b THEN 10 ELSE 0

\* create_features(return_item). original_price, customer_age and item_age_days
\* are as given, price_per_age is the fraction <<numerator, denominator>>, and
\* every other feature is in tenths.
CreateFeatures(return_item) ==
    LET item_age_days == return_item.return_date - return_item.manufacturing_date
    IN  [ original_price    |-> return_item.original_price,
          customer_age      |-> return_item.customer_age,
          condition_score   |-> EncodeCondition(return_item.condition),
          category_encoded  |-> EncodeCategory(return_item.category),
          channel_encoded   |-> EncodeChannel(return_item.purchase_channel),
          item_age_days     |-> item_age_days,
          return_month      |-> 10 * Month(return_item.return_date),
          return_quarter    |-> 10 * (((Month(return_item.return_date) - 1) \div 3) + 1),
          is_weekend        |-> IsWeekend(return_item.return_date),
          price_category    |-> GetPriceCategory(return_item.original_price),
          price_per_age     |-> <<return_item.original_price, Max2(item_age_days, 1)>>,
          seasonality_score |-> EncodeSeasonality(return_item.seasonality),
          demand_score      |-> EncodeDemand(return_item.market_demand),
          warranty_active   |-> Float(return_item.warranty_status = "active"),
          material_count    |-> 10 * Len(return_item.material_composition),
          has_electronics   |-> Float(\E i \in DOMAIN return_item.material_composition :
                                         return_item.material_composition[i] = "Electronics"),
          has_plastic       |-> Float(\E i \in DOMAIN return_item.material_composition :
                                         return_item.material_composition[i] = "Plastic"),
          has_metal         |-> Float(\E i \in DOMAIN return_item.material_composition :
                                         return_item.material_composition[i] = "Metal"),
          reason_length     |-> 10 * Len(return_item.return_reason),
          reason_sentiment  |-> AnalyzeReasonSentiment(return_item.return_reason) ]

\* Return reasons: a negative one, a neutral one, an empty one, one with no
\* word of either list.
ReturnReasons ==
    { <<"D","e","f","e","c","t","i","v","e">>, <<"W","r","o","n","g"," ","s","i","z","e">>,
      <<>>, <<"L","a","t","e">> }

\* Return items as create_features reads them.
FeatureItems ==
    [ original_price       : {499, 500, 2000, 10000, 50000},
      customer_age         : {28},
      condition            : {s_Good, s_mint},
      category             : {s_Electronics, s_fashion},
      purchase_channel     : {s_Store, s_kiosk},
      return_date          : {5, 97, 365},       \* Sat 6 Jan, Sun 7 Apr, Tue 31 Dec 2024
      manufacturing_date   : {-175, 97, 366},
      seasonality          : {s_HIGH, s_mint},
      market_demand        : {s_low, s_mint},
      warranty_status      : {"active", "expired"},
      material_composition : {<<>>, <<"Plastic", "Electronics", "Metal">>, <<"Glass", "Glass">>},
      return_reason        : ReturnReasons ]

\* FeatureEngineering.create_features(return_item)
CreateFeaturesCall ==
    /\ result = NoResult
    /\ result' = [op |-> "create_features", error |-> None, value |-> CreateFeatures(input)]
    /\ UNCHANGED <<disposition_predictor, value_forecaster, anomaly_detector, history, input,
                   risk_assessor, models_trained, model_file, event_loop>>

FeatureInit ==
    /\ disposition_predictor =
         [is_trained |-> FALSE, label_encoder |-> <<>>, scaler |-> FALSE, model |-> <<>>]
    /\ value_forecaster = [is_trained |-> FALSE, scaler |-> FALSE, model |-> FALSE]
    /\ anomaly_detector = NewAnomalyDetector
    /\ risk_assessor = NewRiskAssessment
    /\ models_trained = FALSE
    /\ model_file = <<>>
    /\ event_loop = NoEventLoop
    /\ history = NoHistory
    /\ input \in FeatureItems
    /\ result = NoResult

FeatureNext == CreateFeaturesCall

\* One call of create_features, on any return item.
FeatureSpec == FeatureInit /\ [][FeatureNext]_vars

-----------------------------------------------------------------------------
(* RiskAssessment *)
(* Rates are in thousandths and avg_processing_time in tenths of a day; a   *)
(* component score is in units of 1/42 and the weighted overall score in    *)
(* units of 1/840, so that every quotient of calculate_risk_score is exact. *)

\* The components in the order the dicts hold them.
RiskComponents ==
    <<"volume_risk", "value_risk", "quality_risk", "market_risk", "operational_risk">>

\* dict.get(key, default)
Get(d, key, default) == IF key \in DOMAIN d THEN d[key] ELSE default

\* scores: min(return_rate / 0.15, 1.0) * 100, max(0, (0.6 - recovery_rate) / 0.6) * 100,
\* min(defect_rate / 0.1, 1.0) * 100, min(demand_volatility / 0.3, 1.0) * 100,
\* min(avg_processing_time / 7, 1.0) * 100
ComponentScores(category_data) ==
    [ volume_risk      |-> Min2(28 * Get(category_data, "return_rate", 0), 4200),
      value_risk       |-> Max2(0, 7 * (600 - Get(category_data, "value_recovery_rate", 0))),
      quality_risk     |-> Min2(42 * Get(category_data, "defect_rate", 0), 4200),
      market_risk      |-> Min2(14 * Get(category_data, "demand_volatility", 0), 4200),
      operational_risk |-> Min2(60 * Get(category_data, "avg_processing_time", 0), 4200) ]

\* sum(scores[factor] * weight for factor, weight in self.risk_factors.items())
OverallScore(scores) ==
    SumSeq([i \in 1..Len(RiskComponents) |->
               scores[RiskComponents[i]] * risk_factors[RiskComponents[i]]])

\* risk_level, of the weighted sum before rounding.
RiskLevel(overall_score) ==
    IF overall_score >= 80 * 840 THEN "Critical"
    ELSE IF overall_score >= 60 * 840 THEN "High"
    ELSE IF overall_score >= 40 * 840 THEN "Medium"
    ELSE "Low"

RiskMessages ==
    [ volume_risk |-> "Implement return prevention strategies and improve product descriptions",
      value_risk |-> "Optimize pricing strategies and explore new marketplaces",
      quality_risk |-> "Enhance quality control processes and supplier management",
      market_risk |-> "Diversify market channels and improve demand forecasting",
      operational_risk |-> "Streamline processing workflows and increase capacity" ]

UrgentMessage == "URGENT: Immediate intervention required across all risk areas"

\* _generate_risk_recommendations(scores, overall_score)
GenerateRiskRecommendations(scores, overall_score) ==
    LET flagged == SelectSeq(RiskComponents, LAMBDA c : scores[c] > 70 * 42)
    IN  [i \in 1..Len(flagged) |-> RiskMessages[flagged[i]]]
          \o (IF overall_score > 80 * 840 THEN <<UrgentMessage>> ELSE <<>>)

\* What calculate_risk_score(category_data) may return: overall_score is in
\* tenths, round(overall_score, 1).
CalculateRiskScore(category_data) ==
    LET scores == ComponentScores(category_data)
        overall_score == OverallScore(scores)
    IN  { [ overall_score    |-> rounded,
            risk_level       |-> RiskLevel(overall_score),
            component_scores |-> scores,
            recommendations  |-> GenerateRiskRecommendations(scores, overall_score) ] :
          rounded \in RoundHalfAny(overall_score * 10, 840) }

\* The five fields of a category_data mapping and the values given to each.
RiskFieldValues ==
    [ return_rate         : {-150, 0, 105, 106, 150},
      value_recovery_rate : {-3000, -600, 0, 180, 650},
      defect_rate         : {0, 70, 71, 100},
      demand_volatility   : {0, 5, 100, 300},
      avg_processing_time : {0, 33, 35, 50, 70} ]

\* The keys a mapping holds: all five, none (every field at its default), two.
RiskKeySets ==
    { {"return_rate", "value_recovery_rate", "defect_rate", "demand_volatility",
       "avg_processing_time"},
      {}, {"return_rate", "defect_rate"} }

RiskInputs ==
    { [k \in K |-> full[k]] : full \in RiskFieldValues, K \in RiskKeySets }

\* RiskAssessment.calculate_risk_score(category_data)
CalculateRiskScoreCall ==
    /\ result = NoResult
    /\ \E r \in CalculateRiskScore(input) :
          result' = [op |-> "calculate_risk_score", error |-> None, value |-> r]
    /\ UNCHANGED <<disposition_predictor, value_forecaster, anomaly_detector, history, input,
                   risk_assessor, models_trained, model_file, event_loop>>

\* SmartReturnsPredictionEngine.assess_risk(category_data)
AssessRisk ==
    /\ result = NoResult
    /\ \E r \in CalculateRiskScore(input) :
          result' = [op |-> "assess_risk", error |-> None, value |-> r]
    /\ UNCHANGED <<disposition_predictor, value_forecaster, anomaly_detector, history, input,
                   risk_assessor, models_trained, model_file, event_loop>>

RiskInit ==
    /\ disposition_predictor =
         [is_trained |-> FALSE, label_encoder |-> <<>>, scaler |-> FALSE, model |-> <<>>]
    /\ value_forecaster = [is_trained |-> FALSE, scaler |-> FALSE, model |-> FALSE]
    /\ anomaly_detector = NewAnomalyDetector
    /\ risk_assessor = NewRiskAssessment
    /\ models_trained = FALSE
    /\ model_file = <<>>
    /\ event_loop = NoEventLoop
    /\ history = NoHistory
    /\ input \in RiskInputs
    /\ result = NoResult

RiskNext == CalculateRiskScoreCall \/ AssessRisk

\* One risk assessment, of any category_data mapping.
RiskSpec == RiskInit /\ [][RiskNext]_vars

-----------------------------------------------------------------------------
(* AnomalyDetector *)
(* A DataFrame with the columns date, category and count is the set of its  *)
(* rows. A float is an exact fraction <<numerator, denominator>>; NaN is a  *)
(* fraction of denominator 0. The key daily_std of baseline_stats holds the *)
(* square of the standard deviation, which is a fraction. The key           *)
(* seasonal_patterns, which detect_anomalies never reads, is left out.      *)

ErrKeyError == "KeyError: 'daily_mean'"

RECURSIVE SumCounts(_)
\* ['count'].sum() of a set of rows
SumCounts(rows) ==
    IF rows = {} THEN 0
    ELSE LET r == CHOOSE x \in rows : TRUE IN r.count + SumCounts(rows \ {r})

\* The groups of groupby('date') and groupby('category')
RowsOn(df, date) == { r \in df : r.date = date }
RowsIn(df, category) == { r \in df : r.category = category }
FrameDates(df) == { r.date : r \in df }
FrameCategories(df) == { r.category : r \in df }

RECURSIVE Gcd(_, _)
Gcd(a, b) == IF b = 0 THEN a ELSE Gcd(b, a % b)

RECURSIVE LcmOver(_)
\* The least common multiple of a finite set of positive integers.
LcmOver(S) ==
    IF S = {} THEN 1
    ELSE LET x == CHOOSE y \in S : TRUE
             l == LcmOver(S \ {x})
         IN  (x * l) \div Gcd(x, l)

\* The mean and the sample variance (ddof = 1, as Series.std) of the values
\* x[d] / k, d in D: NaN for no value, and a NaN variance for a single value.
MeanAndVariance(x, D, k) ==
    LET n == Cardinality(D)
        s == SumOver(x, D)
        ss == SumOver([d \in D |-> x[d] * x[d]], D)
    IN  [ mean |-> <<s, n * k>>, variance |-> <<n * ss - s * s, n * (n - 1) * k * k>> ]

\* baseline_stats as fit computes it: groupby('date')['count'].mean() is the
\* mean count of the rows of each date; daily_mean is the mean and daily_std
\* the standard deviation of these per-date means. k is a common denominator
\* of the per-date means.
BaselineStats(historical_data) ==
    LET D == FrameDates(historical_data)
        k == LcmOver({ Cardinality(RowsOn(historical_data, d)) : d \in D })
        x == [d \in D |-> SumCounts(RowsOn(historical_data, d))
                            * (k \div Cardinality(RowsOn(historical_data, d)))]
        daily == MeanAndVariance(x, D, k)
    IN  [ daily_mean |-> daily.mean,
          daily_std  |-> daily.variance,
          category_means |->
              [ c \in FrameCategories(historical_data) |->
                  << SumCounts(RowsIn(historical_data, c)),
                     Cardinality(RowsIn(historical_data, c)) >> ] ]

\* z_score >= bound
ZScoreReaches(count, stats, bound) ==
    LET a == stats.daily_mean[1]
        b == stats.daily_mean[2]
        p == stats.daily_std[1]
        q == stats.daily_std[2]
    IN  IF b = 0 \/ q = 0 THEN FALSE
        ELSE IF p = 0 THEN count * b # a
        ELSE 100 * (count * b - a) * (count * b - a) * q >= bound * bound * p * b * b

\* z_score > bound (in tenths), for z_score = abs(count - daily_mean) / daily_std
\* on numpy floats: a NaN mean or deviation gives NaN, which exceeds nothing;
\* a deviation of 0 gives inf, or NaN when count = daily_mean.
ZScoreExceeds(count, stats, bound) ==
    LET a == stats.daily_mean[1]
        b == stats.daily_mean[2]
        p == stats.daily_std[1]
        q == stats.daily_std[2]
    IN  IF b = 0 \/ q = 0 THEN FALSE
        ELSE IF p = 0 THEN count * b # a
        ELSE 100 * (count * b - a) * (count * b - a) * q > bound * bound * p * b * b

\* abs(count - expected) / expected > bound (in tenths), without the test
\* expected > 0.
DeviationExceedsUnguarded(count, expected, bound) ==
    10 * Abs(count * expected[2] - expected[1]) > bound * expected[1]

\* expected > 0 and abs(count - expected) / expected > bound (in tenths)
DeviationExceeds(count, expected, bound) ==
    /\ expected[1] > 0
    /\ 10 * Abs(count * expected[2] - expected[1]) > bound * expected[1]

RECURSIVE SortedSeq(_)
\* The elements of a finite set of integers in increasing order.
SortedSeq(S) ==
    IF S = {} THEN <<>>
    ELSE LET m == CHOOSE x \in S : \A y \in S : x <= y
         IN  <<m>> \o SortedSeq(S \ {m})

\* The categories in the order groupby sorts them.
CategoryOrder == <<s_Electronics, s_Fashion>>

\* The volume anomalies of detect_anomalies, one date after the other.
VolumeAnomalies(self, current_data) ==
    LET stats == self.baseline_stats
        dates == SortedSeq(FrameDates(current_data))
        count(d) == SumCounts(RowsOn(current_data, d))
        flagged == SelectSeq(dates, LAMBDA d : ZScoreExceeds(count(d), stats, self.threshold))
    IN  [ i \in 1..Len(flagged) |->
            [ type     |-> "volume_anomaly",
              key      |-> flagged[i],
              value    |-> count(flagged[i]),
              expected |-> stats.daily_mean,
              severity |-> IF ZScoreExceeds(count(flagged[i]), stats, 30)
                           THEN "high" ELSE "medium" ] ]

\* The category anomalies of detect_anomalies, one category after the other.
CategoryAnomalies(self, current_data) ==
    LET means == self.baseline_stats.category_means
        present == SelectSeq(CategoryOrder, LAMBDA c : c \in FrameCategories(current_data))
        count(c) == SumCounts(RowsIn(current_data, c))
        expected(c) == Get(means, c, <<0, 1>>)
        flagged == SelectSeq(present, LAMBDA c : DeviationExceeds(count(c), expected(c), 5))
    IN  [ i \in 1..Len(flagged) |->
            [ type     |-> "category_anomaly",
              key      |-> flagged[i],
              value    |-> count(flagged[i]),
              expected |-> expected(flagged[i]),
              severity |-> IF DeviationExceeds(count(flagged[i]), expected(flagged[i]), 10)
                           THEN "high" ELSE "medium" ] ]

\* What detect_anomalies(current_data) returns or raises: with baseline_stats
\* = {} the first date raises KeyError at line 624, and a frame with no row
\* reaches neither loop body.
DetectOutcome(self, current_data) ==
    IF current_data # {} /\ "daily_mean" \notin DOMAIN self.baseline_stats
    THEN [error |-> ErrKeyError]
    ELSE [ error |-> None,
           value |-> IF current_data = {} THEN <<>>
                     ELSE VolumeAnomalies(self, current_data)
                            \o CategoryAnomalies(self, current_data) ]

\* A cell of a frame: no row, or one row with one of the counts.
Opt(Counts) == {<<>>} \cup { <<n>> : n \in Counts }

\* The rows of category for the cells f gives the dates.
RowsOf(f, category) ==
    { [date |-> d, category |-> category, count |-> f[d][1]] :
        d \in { x \in DOMAIN f : f[x] # <<>> } }

\* Historical frames: up to three dates, each with at most one row of each of
\* two categories; the second category has count 0 throughout.
HistoricalFrames ==
    { RowsOf(f, s_Electronics) \cup RowsOf(g, s_Fashion) :
        f \in [{1, 2, 3} -> Opt({8, 10, 12})], g \in [{1, 2, 3} -> Opt({0})] }

\* Current frames: a date with at most one row of each category, and possibly a
\* second date.
CurrentFrames ==
    { RowsOf(f, s_Electronics) \cup RowsOf(g, s_Fashion) \cup extra :
        f \in [{4} -> Opt({0, 5, 15, 16, 17, 20, 21})], g \in [{4} -> Opt({10})],
        extra \in {{}, {[date |-> 5, category |-> s_Electronics, count |-> 16]}} }

\* AnomalyDetector.fit(historical_data), on the frame drawn for this engine
AnomalyFit ==
    /\ anomaly_detector' =
         [anomaly_detector EXCEPT !.baseline_stats = BaselineStats(input)]
    /\ result' = [op |-> "fit", error |-> None, frame |-> input]
    /\ UNCHANGED <<disposition_predictor, value_forecaster, history, input,
                   risk_assessor, models_trained, model_file, event_loop>>

\* AnomalyDetector.detect_anomalies(current_data)
DetectAnomalies(current_data) ==
    /\ result.op \in {"none", "fit"}
    /\ result' = [op |-> "detect", frame |-> current_data]
                   @@ DetectOutcome(anomaly_detector, current_data)
    /\ UNCHANGED <<disposition_predictor, value_forecaster, anomaly_detector, history, input,
                   risk_assessor, models_trained, model_file, event_loop>>

\* SmartReturnsPredictionEngine.detect_anomalies(current_data)
EngineDetectAnomalies(current_data) ==
    /\ result.op \in {"none", "fit"}
    /\ result' = [op |-> "detect_anomalies", frame |-> current_data]
                   @@ DetectOutcome(anomaly_detector, current_data)
    /\ UNCHANGED <<disposition_predictor, value_forecaster, anomaly_detector, history, input,
                   risk_assessor, models_trained, model_file, event_loop>>

AnomalyInit ==
    /\ disposition_predictor =
         [is_trained |-> FALSE, label_encoder |-> <<>>, scaler |-> FALSE, model |-> <<>>]
    /\ value_forecaster = [is_trained |-> FALSE, scaler |-> FALSE, model |-> FALSE]
    /\ anomaly_detector = NewAnomalyDetector
    /\ risk_assessor = NewRiskAssessment
    /\ models_trained = FALSE
    /\ model_file = <<>>
    /\ event_loop = NoEventLoop
    /\ history = NoHistory
    /\ input \in HistoricalFrames
    /\ result = NoResult

AnomalyNext ==
    \/ AnomalyFit
    \/ \E current_data \in CurrentFrames : DetectAnomalies(current_data)
    \/ \E current_data \in CurrentFrames : EngineDetectAnomalies(current_data)

\* The anomaly detector of an engine, from construction: detections before and
\* after a fit on the historical frame drawn.
AnomalySpec == AnomalyInit /\ [][AnomalyNext]_vars

-----------------------------------------------------------------------------
(* SmartReturnsPredictionEngine.optimize_hub_assignment *)

ErrIndexError == "IndexError: list index out of range"

\* A dict is the sequence of its (key, value) pairs in insertion order, the
\* order in which keys(), items() and iteration give them.
Keys(dict) == [i \in DOMAIN dict |-> dict[i][1]]

Lookup(dict, key) == (CHOOSE i \in DOMAIN dict : dict[i][1] = key)

\* available_hubs (line 894): the hubs of capacity above 0, in dict order.
AvailableHubs(hub_capacities) ==
    Keys(SelectSeq(hub_capacities, LAMBDA kv : kv[2] > 0))

\* max(available_hubs, key=...) : the first of the hubs of greatest capacity.
MaxByCapacity(available_hubs, hub_capacities) ==
    LET capacity(h) == hub_capacities[Lookup(hub_capacities, h)][2]
        best == CHOOSE i \in DOMAIN available_hubs :
                   /\ \A j \in DOMAIN available_hubs :
                         capacity(available_hubs[j]) <= capacity(available_hubs[i])
                   /\ \A j \in 1..(i - 1) :
                         capacity(available_hubs[j]) < capacity(available_hubs[i])
    IN  available_hubs[best]

\* _find_optimal_hub(item, hub_capacities): the hub id, or the IndexError of
\* list(hub_capacities.keys())[0] on an empty dict.
FindOptimalHub(item, hub_capacities) ==
    LET available_hubs == AvailableHubs(hub_capacities)
    IN  IF available_hubs = <<>>
        THEN IF hub_capacities = <<>> THEN [error |-> ErrIndexError]
             ELSE [error |-> None, value |-> Keys(hub_capacities)[1]]
        ELSE [error |-> None, value |-> MaxByCapacity(available_hubs, hub_capacities)]

\* The loop of optimize_hub_assignment (lines 820-822) over the items left,
\* from the assignments so far (a function from hub ids to lists of skus).
RECURSIVE AssignItems(_, _, _)

AssignItems(return_items, hub_capacities, assignments) ==
    IF return_items = <<>> THEN [error |-> None, value |-> assignments]
    ELSE LET item == Head(return_items)
             best_hub == FindOptimalHub(item, hub_capacities)
         IN  IF best_hub.error # None THEN [error |-> best_hub.error]
             ELSE AssignItems(Tail(return_items), hub_capacities,
                              [assignments EXCEPT ![best_hub.value] = Append(@, item.sku)])

\* What optimize_hub_assignment(return_items, hub_capacities) returns or raises.
HubAssignment(return_items, hub_capacities) ==
    AssignItems(return_items, hub_capacities,
                [hub_id \in { hub_capacities[i][1] : i \in DOMAIN hub_capacities } |-> <<>>])

Skus == {"SKU1", "SKU2"}

HubIds == {"HUB_A", "HUB_B", "HUB_C"}

\* Lists of 1..MaxItems items; an item is its sku.
ItemLists == UNION { [1..n -> [sku : Skus]] : n \in 1..MaxItems }

\* Dicts of up to three hubs, in any insertion order, with capacities
\* 0..MaxCapacity.
HubCapacities ==
    { d \in UNION { [1..n -> HubIds \X (0..MaxCapacity)] : n \in 0..3 } :
        \A i, j \in DOMAIN d : i # j => d[i][1] # d[j][1] }

\* SmartReturnsPredictionEngine.optimize_hub_assignment(return_items, hub_capacities)
OptimizeHubAssignment ==
    /\ result = NoResult
    /\ result' = [ op |-> "optimize_hub_assignment", return_items |-> input.return_items,
                   hub_capacities |-> input.hub_capacities ]
                    @@ HubAssignment(input.return_items, input.hub_capacities)
    /\ UNCHANGED <<disposition_predictor, value_forecaster, anomaly_detector, history, input,
                   risk_assessor, models_trained, model_file, event_loop>>

HubInit ==
    /\ disposition_predictor =
         [is_trained |-> FALSE, label_encoder |-> <<>>, scaler |-> FALSE, model |-> <<>>]
    /\ value_forecaster = [is_trained |-> FALSE, scaler |-> FALSE, model |-> FALSE]
    /\ anomaly_detector = NewAnomalyDetector
    /\ risk_assessor = NewRiskAssessment
    /\ models_trained = FALSE
    /\ model_file = <<>>
    /\ event_loop = NoEventLoop
    /\ history = NoHistory
    /\ input \in [return_items : ItemLists, hub_capacities : HubCapacities]
    /\ result = NoResult

HubNext == OptimizeHubAssignment

\* One call of optimize_hub_assignment, on any items and hubs.
HubSpec == HubInit /\ [][HubNext]_vars

-----------------------------------------------------------------------------
(* SmartReturnsPredictionEngine: train_models, save_models, load_models *)

ErrFileNotFound == "FileNotFoundError"

\* The value of key in a dict (a sequence of (key, value) pairs).
GetItem(dict, key) == dict[Lookup(dict, key)][2]

\* The training sets of 'returns': one on which train succeeds (7 repair and 2
\* resale) and one on which it fails in the split (a single scrap).
EngineReturns ==
    { [l \in LabelSet |-> CASE l = s_repair -> 7 [] l = s_resale -> 2 [] OTHER -> 0],
      [l \in LabelSet |-> IF l = s_scrap THEN 1 ELSE 0] }

\* The number of rows of 'time_series'.
EngineSeries == {MaxRows}

\* The frames of 'historical'.
EngineFrames ==
    { { [date |-> 1, category |-> s_Electronics, count |-> 8],
        [date |-> 2, category |-> s_Electronics, count |-> 12] } }

\* training_data: a dict with any of the keys 'returns', 'time_series' and
\* 'historical' (here a function from the keys it has).
TrainingData ==
    { [k \in K |-> full[k]] :
        full \in [returns : EngineReturns, time_series : EngineSeries,
                  historical : EngineFrames],
        K \in SUBSET {"returns", "time_series", "historical"} }

\* SmartReturnsPredictionEngine.train_models(training_data): the three steps in
\* order, each behind its 'in training_data' test; an exception of a step ends
\* the call, with what the steps before it and the step itself have changed.
TrainModels(training_data) ==
    \E err1 \in IF "returns" \in DOMAIN training_data
                THEN TrainOutcomes(training_data["returns"]) ELSE {None} :
        LET err2 == IF err1 # None THEN err1
                    ELSE IF "time_series" \in DOMAIN training_data
                    THEN ForecasterTrainOutcome(training_data["time_series"])
                    ELSE None
            results == { r \in {<<"returns", "disposition">>, <<"time_series", "forecasting">>,
                                <<"historical", "anomaly_detection">>} :
                           r[1] \in DOMAIN training_data }
        IN  /\ disposition_predictor' =
                 IF "returns" \in DOMAIN training_data
                 THEN TrainedPredictor(disposition_predictor, training_data["returns"], err1)
                 ELSE disposition_predictor
            /\ value_forecaster' =
                 IF err1 = None /\ "time_series" \in DOMAIN training_data
                 THEN TrainedForecaster(value_forecaster, err2)
                 ELSE value_forecaster
            /\ anomaly_detector' =
                 IF err2 = None /\ "historical" \in DOMAIN training_data
                 THEN [anomaly_detector EXCEPT
                          !.baseline_stats = BaselineStats(training_data["historical"])]
                 ELSE anomaly_detector
            /\ models_trained' = IF err2 = None THEN TRUE ELSE models_trained
            /\ result' = IF err2 = None
                         THEN [ op |-> "train_models", error |-> None,
                                value |-> { r[2] : r \in results } ]
                         ELSE [op |-> "train_models", error |-> err2]
            /\ UNCHANGED <<risk_assessor, model_file, history, input, event_loop>>

\* model_data of save_models (lines 904-910)
ModelData ==
    << <<"disposition_predictor", disposition_predictor>>,
       <<"value_forecaster", value_forecaster>>,
       <<"anomaly_detector", anomaly_detector>>,
       <<"risk_assessor", risk_assessor>>,
       <<"models_trained", models_trained>> >>

\* joblib.dump of a dict: the stream of its keys and values, key 1, value 1,
\* key 2, value 2, ...
Dump(dict) ==
    [i \in 1..(2 * Len(dict)) |-> IF i % 2 = 1 THEN dict[(i + 1) \div 2][1]
                                  ELSE dict[i \div 2][2]]

\* joblib.load: the dict of the stream.
Load(stream) ==
    [i \in 1..(Len(stream) \div 2) |-> <<stream[2 * i - 1], stream[2 * i]>>]

\* The engine as the five attributes of __init__.
EngineState ==
    [ disposition_predictor |-> disposition_predictor,
      value_forecaster      |-> value_forecaster,
      anomaly_detector      |-> anomaly_detector,
      risk_assessor         |-> risk_assessor,
      models_trained        |-> models_trained ]

\* SmartReturnsPredictionEngine.save_models(filepath)
SaveModels ==
    /\ model_file' = <<Dump(ModelData)>>
    /\ history' = [history EXCEPT !.saved = <<EngineState>>]
    /\ result' = [op |-> "save_models", error |-> None]
    /\ UNCHANGED <<disposition_predictor, value_forecaster, anomaly_detector,
                   risk_assessor, models_trained, input, event_loop>>

\* load_models without the assignment of the anomaly detector.
LoadedEngineKeepingDetector(model_data) ==
    [ disposition_predictor |-> GetItem(model_data, "disposition_predictor"),
      value_forecaster      |-> GetItem(model_data, "value_forecaster"),
      anomaly_detector      |-> anomaly_detector,
      risk_assessor         |-> GetItem(model_data, "risk_assessor"),
      models_trained        |-> GetItem(model_data, "models_trained") ]

\* The attributes load_models assigns from model_data (lines 919-923).
LoadedEngine(model_data) ==
    [ disposition_predictor |-> GetItem(model_data, "disposition_predictor"),
      value_forecaster      |-> GetItem(model_data, "value_forecaster"),
      anomaly_detector      |-> GetItem(model_data, "anomaly_detector"),
      risk_assessor         |-> GetItem(model_data, "risk_assessor"),
      models_trained        |-> GetItem(model_data, "models_trained") ]

\* SmartReturnsPredictionEngine.load_models(filepath); joblib.load raises when
\* there is no file.
LoadModels ==
    IF model_file = <<>>
    THEN /\ result' = [op |-> "load_models", error |-> ErrFileNotFound]
         /\ UNCHANGED <<disposition_predictor, value_forecaster, anomaly_detector,
                        risk_assessor, models_trained, model_file, history, input, event_loop>>
    ELSE LET loaded == LoadedEngine(Load(model_file[1]))
         IN  /\ disposition_predictor' = loaded.disposition_predictor
             /\ value_forecaster' = loaded.value_forecaster
             /\ anomaly_detector' = loaded.anomaly_detector
             /\ risk_assessor' = loaded.risk_assessor
             /\ models_trained' = loaded.models_trained
             /\ result' = [op |-> "load_models", error |-> None, previous |-> EngineState]
             /\ UNCHANGED <<model_file, history, input, event_loop>>

\* SmartReturnsPredictionEngine(): the engine at hand is from now on a new one
\* (as at a start of the server); the file stays.
NewEngine ==
    /\ disposition_predictor' =
         [is_trained |-> FALSE, label_encoder |-> <<>>, scaler |-> FALSE, model |-> <<>>]
    /\ value_forecaster' = [is_trained |-> FALSE, scaler |-> FALSE, model |-> FALSE]
    /\ anomaly_detector' = NewAnomalyDetector
    /\ risk_assessor' = NewRiskAssessment
    /\ models_trained' = FALSE
    /\ result' = [op |-> "__init__", error |-> None]
    /\ UNCHANGED <<model_file, history, input, event_loop>>

EngineInit ==
    /\ disposition_predictor =
         [is_trained |-> FALSE, label_encoder |-> <<>>, scaler |-> FALSE, model |-> <<>>]
    /\ value_forecaster = [is_trained |-> FALSE, scaler |-> FALSE, model |-> FALSE]
    /\ anomaly_detector = NewAnomalyDetector
    /\ risk_assessor = NewRiskAssessment
    /\ models_trained = FALSE
    /\ model_file = <<>>
    /\ event_loop = NoEventLoop
    /\ history = [saved |-> <<>>]
    /\ input = None
    /\ result = NoResult

EngineNext ==
    \/ \E training_data \in TrainingData : TrainModels(training_data)
    \/ SaveModels
    \/ LoadModels
    \/ NewEngine

\* An engine from construction: trainings on any of the datasets, saves, loads
\* and new engines over the same file.
EngineSpec == EngineInit /\ [][EngineNext]_vars

-----------------------------------------------------------------------------
(* Repeated predict calls of one predictor *)

\* The forests a fit may give: a fitted forest is a function from the scaled
\* features, and so from the record, to a class id and a largest probability.
Forests(labels) == [Items -> [id : 1..Len(labels), confidence : Confidences]]

\* self.model.predict and self.model.predict_proba answering from what other
\* records were given to predict before.
ForestPredictShared(self, item) ==
    IF \E other \in Items \ {item} : history.returned[other] # {}
    THEN [id |-> 1, confidence |-> 50]
    ELSE self.forest[item]

\* self.model.predict(X_scaled)[0] and np.max(self.model.predict_proba(X_scaled)[0])
\* (lines 282-287)
ForestPredict(self, item) == self.forest[item]

\* round(x, 2) is a function of x: where x is an exact half in decimal, and the
\* float nearest to it may lie on either side, the arithmetic of the machine
\* settles the side. input holds the side for each metric of a result.
Roundings ==
    [estimated_value : {"down", "up"}, co2_saved : {"down", "up"},
     landfill_avoided : {"down", "up"}]

\* The value of a set of one or two candidates that the side selects.
Rounded(candidates, side) ==
    CHOOSE x \in candidates :
        \A y \in candidates : IF side = "down" THEN x <= y ELSE x >= y

\* What predict(item) returns or raises, with the forest the predictor holds
\* and the roundings of the machine.
PredictOfForest(self, item) ==
    { out \in PredictOutcomes(self, item) :
        out.error = None =>
            LET action == self.label_encoder[ForestPredict(self, item).id]
            IN  /\ out.value.recommended_action = action
                /\ out.value.confidence = ForestPredict(self, item).confidence
                /\ out.value.estimated_value =
                     Rounded(CalculateEstimatedValue(item, action), input.estimated_value)
                /\ out.value.co2_saved =
                     Rounded(CalculateCo2Impact(item, action), input.co2_saved)
                /\ out.value.landfill_avoided =
                     Rounded(CalculateWasteImpact(item, action), input.landfill_avoided) }

\* DispositionPredictor.train, on samples of repair and resale on which it
\* succeeds, fitting the forest.
RepeatTrain(forest) ==
    LET d == [l \in LabelSet |-> CASE l = s_repair -> 7 [] l = s_resale -> 2 [] OTHER -> 0]
    IN  /\ None \in TrainOutcomes(d)
        /\ disposition_predictor' =
             [forest |-> forest] @@ TrainedPredictor(disposition_predictor, d, None)
        /\ history' = [returned |-> [item \in Items |-> {}], calls |-> [item \in Items |-> 0]]
        /\ result' = [op |-> "train", error |-> None]
        /\ UNCHANGED <<value_forecaster, anomaly_detector, risk_assessor, models_trained,
                       model_file, input, event_loop>>

\* DispositionPredictor.predict(return_item); history keeps how often predict
\* was called on each record since the last train (up to MaxCalls times), and
\* what it has returned or raised.
RepeatPredict(item) ==
    \E out \in PredictOfForest(disposition_predictor, item) :
        /\ history.calls[item] < MaxCalls
        /\ result' = [op |-> "predict", item |-> item] @@ out
        /\ history' = [history EXCEPT !.returned[item] = @ \cup {out},
                                        !.calls[item] = @ + 1]
        /\ UNCHANGED <<disposition_predictor, value_forecaster, anomaly_detector,
                       risk_assessor, models_trained, model_file, input, event_loop>>

RepeatInit ==
    /\ disposition_predictor =
         [is_trained |-> FALSE, label_encoder |-> <<>>, scaler |-> FALSE, model |-> <<>>]
    /\ value_forecaster = [is_trained |-> FALSE, scaler |-> FALSE, model |-> FALSE]
    /\ anomaly_detector = NewAnomalyDetector
    /\ risk_assessor = NewRiskAssessment
    /\ models_trained = FALSE
    /\ model_file = <<>>
    /\ event_loop = NoEventLoop
    /\ history = [returned |-> [item \in Items |-> {}], calls |-> [item \in Items |-> 0]]
    /\ input \in Roundings
    /\ result = NoResult

RepeatNext ==
    \/ \E forest \in Forests(<<s_repair, s_resale>>) : RepeatTrain(forest)
    \/ \E item \in Items : RepeatPredict(item)

\* A predictor from construction: trainings that succeed, and predict calls in
\* any number and order.
RepeatSpec == RepeatInit /\ [][RepeatNext]_vars

-----------------------------------------------------------------------------
(* The model server (src/ml/model_server.py)                               *)
(* Every handler and the background training task are coroutines (async    *)
(* def) of one event loop. A coroutine runs until it awaits something that  *)
(* suspends it or returns; none of the coroutines here awaits inside its    *)
(* body, so a coroutine that has started runs to its end before another     *)
(* starts. The training task is modelled step by step all the same, the     *)
(* engine changing attribute by attribute.                                  *)

\* The handlers start a request with no regard to what runs.
LoopFreeAlways(loop) == TRUE

\* The event loop starts a coroutine when no coroutine runs.
LoopFree(loop) == loop.running = <<>>

\* mock_data['returns'] of _train_models_background: 100 rows of disposition
\* repair and 200 of resale.
MockReturns ==
    [l \in LabelSet |-> CASE l = s_repair -> 100 [] l = s_resale -> 200 [] OTHER -> 0]

\* The samples of a file of models trained before the server started.
PretrainedReturns ==
    [l \in LabelSet |-> CASE l = s_resale -> 7 [] l = s_scrap -> 2 [] OTHER -> 0]

\* The steps of the background task, in order: train_models on mock_data, that
\* is DispositionPredictor.train (the label encoder; the scaler and the
\* forest; is_trained) and models_trained = True, then save_models.
TrainingSteps ==
    <<"label_encoder", "forest", "is_trained", "models_trained", "save_models">>

\* The engine's attributes and the file after step pc of the task. train
\* raising at this step (err) ends the task: the except clause logs the error.
AfterTrainingStep(pc, err) ==
    [ disposition_predictor |->
        CASE pc = "label_encoder" -> TrainedPredictor(disposition_predictor, MockReturns, ErrSplit)
          [] pc = "forest"        -> TrainedPredictor(disposition_predictor, MockReturns, ErrCrossVal)
          [] pc = "is_trained"    -> TrainedPredictor(disposition_predictor, MockReturns, None)
          [] OTHER                -> disposition_predictor,
      models_trained |-> IF pc = "models_trained" THEN TRUE ELSE models_trained,
      model_file     |-> IF pc = "save_models" THEN <<Dump(ModelData)>> ELSE model_file,
      next           |-> IF (pc = "label_encoder" /\ err = ErrSplit)
                            \/ (pc = "forest" /\ err = ErrCrossVal)
                            \/ pc = "save_models"
                         THEN <<>>
                         ELSE <<TrainingSteps[1 + CHOOSE i \in DOMAIN TrainingSteps :
                                                     TrainingSteps[i] = pc]>> ]

\* What a handler answers: 503 behind the models_trained gate, and otherwise
\* 200 with what the engine returned or 500 with what it raised.
Response(gated, outcome) ==
    IF gated /\ ~models_trained THEN [status |-> 503, error |-> None]
    ELSE IF outcome.error = None THEN [status |-> 200] @@ outcome
    ELSE [status |-> 500] @@ outcome

\* What a request sees of the server: the engine, and the step of a training
\* task that has started and not ended.
Observed == [engine |-> EngineState, training |-> event_loop.running]

\* POST /predict/disposition
PredictRequest(item) ==
    /\ LoopFree(event_loop)
    /\ \E outcome \in PredictOutcomes(disposition_predictor, item) :
          result' = [op |-> "POST /predict/disposition", observed |-> Observed]
                      @@ Response(TRUE, outcome)
    /\ UNCHANGED <<disposition_predictor, value_forecaster, anomaly_detector, risk_assessor,
                   models_trained, model_file, event_loop, history, input>>

\* POST /forecast/demand
ForecastRequest(periods) ==
    /\ LoopFree(event_loop)
    /\ \E outcome \in ForecastOutcomes(value_forecaster, periods) :
          result' = [op |-> "POST /forecast/demand", observed |-> Observed]
                      @@ Response(TRUE, outcome)
    /\ UNCHANGED <<disposition_predictor, value_forecaster, anomaly_detector, risk_assessor,
                   models_trained, model_file, event_loop, history, input>>

\* POST /detect/anomalies
AnomalyRequest(data) ==
    /\ LoopFree(event_loop)
    /\ result' = [op |-> "POST /detect/anomalies", observed |-> Observed]
                   @@ Response(FALSE, DetectOutcome(anomaly_detector, data))
    /\ UNCHANGED <<disposition_predictor, value_forecaster, anomaly_detector, risk_assessor,
                   models_trained, model_file, event_loop, history, input>>

\* POST /models/train: the training task is added to the background tasks,
\* which run after the response is sent.
TrainRequest ==
    /\ LoopFree(event_loop)
    /\ event_loop.pending < MaxPending
    /\ event_loop' = [event_loop EXCEPT !.pending = @ + 1]
    /\ result' = [op |-> "POST /models/train", status |-> 200, error |-> None,
                  observed |-> Observed]
    /\ UNCHANGED <<disposition_predictor, value_forecaster, anomaly_detector, risk_assessor,
                   models_trained, model_file, history, input>>

\* The event loop starts a background task that waits.
BackgroundStart ==
    /\ event_loop.running = <<>>
    /\ event_loop.pending > 0
    /\ event_loop' = [running |-> <<TrainingSteps[1]>>, pending |-> event_loop.pending - 1]
    /\ UNCHANGED <<disposition_predictor, value_forecaster, anomaly_detector, risk_assessor,
                   models_trained, model_file, history, input, result>>

\* _train_models_background: the next step of the task that runs.
BackgroundStep ==
    /\ event_loop.running # <<>>
    /\ \E err \in TrainOutcomes(MockReturns) :
          LET after == AfterTrainingStep(event_loop.running[1], err)
          IN  /\ disposition_predictor' = after.disposition_predictor
              /\ models_trained' = after.models_trained
              /\ model_file' = after.model_file
              /\ event_loop' = [event_loop EXCEPT !.running = after.next]
    /\ UNCHANGED <<value_forecaster, anomaly_detector, risk_assessor, history, input, result>>

\* lifespan: a new engine, with the models of MODEL_PATH loaded when the file
\* exists.
ServerInit ==
    /\ \/ /\ model_file = <<>>
          /\ disposition_predictor =
               [is_trained |-> FALSE, label_encoder |-> <<>>, scaler |-> FALSE, model |-> <<>>]
          /\ models_trained = FALSE
       \/ /\ disposition_predictor =
               TrainedPredictor([is_trained |-> FALSE, label_encoder |-> <<>>,
                                 scaler |-> FALSE, model |-> <<>>], PretrainedReturns, None)
          /\ models_trained = TRUE
          /\ model_file =
               << Dump(<< <<"disposition_predictor", disposition_predictor>>,
                          <<"value_forecaster",
                            [is_trained |-> FALSE, scaler |-> FALSE, model |-> FALSE]>>,
                          <<"anomaly_detector", NewAnomalyDetector>>,
                          <<"risk_assessor", NewRiskAssessment>>,
                          <<"models_trained", TRUE>> >>) >>
    /\ value_forecaster = [is_trained |-> FALSE, scaler |-> FALSE, model |-> FALSE]
    /\ anomaly_detector = NewAnomalyDetector
    /\ risk_assessor = NewRiskAssessment
    /\ event_loop = NoEventLoop
    /\ history = NoHistory
    /\ input = None
    /\ result = NoResult

ServerNext ==
    \/ \E item \in Items : PredictRequest(item)
    \/ \E periods \in 1..2 : ForecastRequest(periods)
    \/ \E data \in EngineFrames : AnomalyRequest(data)
    \/ TrainRequest
    \/ BackgroundStart
    \/ BackgroundStep

\* The server from its start: requests and training tasks in any order.
ServerSpec == ServerInit /\ [][ServerNext]_vars

-----------------------------------------------------------------------------
(* The claims *)

IsPredict == result.op \in {"predict", "predict_disposition"}
IsForecast == result.op \in {"forecast", "forecast_demand"}
Returned == result.error = None

\* C1: as long as no train call of the predictor has returned, the predictor
\* is untrained, and every predict and engine.predict_disposition call raises the
\* "must be trained" error and returns no PredictionResult.
C1_PredictBeforeTrain ==
    ~history.train_completed =>
        /\ ~disposition_predictor.is_trained
        /\ IsPredict => result.error = ErrNotTrained /\ "value" \notin DOMAIN result

\* C1 witness: predict_disposition was refused on a predictor whose only train
\* calls failed, one of them after the forest was fitted.
C1_Witness ==
    /\ result.op = "predict_disposition"
    /\ result.error = ErrNotTrained
    /\ ~history.train_completed
    /\ disposition_predictor.model # <<>>

\* C2: a train call on samples of 2 or more distinct labels leaves the policy
\* trained, and once such a call was made no predict call fails.
C2_TrainOnTwoLabels ==
    /\ (result.op = "train" /\ result.n_labels >= 2) =>
           (Returned /\ disposition_predictor.is_trained)
    /\ (history.multi_label_train /\ IsPredict) => Returned

\* C3: a train call on samples of fewer than 2 distinct labels raises and leaves
\* is_trained as it was.
C3_TrainOnOneLabelFails ==
    [][ (result'.op = "train" /\ result'.n_labels < 2) =>
            /\ result'.error # None
            /\ disposition_predictor'.is_trained = disposition_predictor.is_trained ]_vars

\* C4: as long as no train call of the forecaster has returned, every forecast
\* and engine.forecast_demand call, whatever periods and category, raises the "must
\* be trained" error and returns no ForecastResult.
C4_ForecastBeforeTrain ==
    (~history.forecaster_train_completed /\ IsForecast) =>
        result.error = ErrNotTrained /\ "value" \notin DOMAIN result

\* C4 witness: forecast_demand for a positive number of periods and a category was
\* refused before any train.
C4_Witness ==
    /\ result.op = "forecast_demand"
    /\ result.periods >= 1
    /\ result.category = s_Electronics
    /\ ~history.forecaster_train_completed
    /\ result.error = ErrNotTrained

\* The entries of a forecast for periods: one per period, numbered 1, 2, ... in
\* order, each with lower_bound <= predicted_value <= upper_bound.
WellFormedForecast(predictions, periods) ==
    /\ Len(predictions) = periods
    /\ \A i \in 1..Len(predictions) :
          /\ predictions[i].period = i
          /\ predictions[i].lower_bound <= predictions[i].predicted_value
          /\ predictions[i].predicted_value <= predictions[i].upper_bound

\* C5: on a trained forecaster, forecast for periods >= 1 returns a forecast
\* with exactly one well-formed entry per period.
C5_ForecastOfTrained ==
    (IsForecast /\ value_forecaster.is_trained /\ result.periods >= 1) =>
        Returned /\ WellFormedForecast(result.value.predictions, result.periods)

\* What C5 says of the forecasts that are returned.
C5_ReturnedForecastWellFormed ==
    (IsForecast /\ Returned) =>
        WellFormedForecast(result.value.predictions, result.periods)

Marketplaces ==
    {"Flipkart", "Flipkart 2GUD", "Myntra", "Amazon Renewed", "Walmart Marketplace"}

\* C6: in every PredictionResult the marketplace is None exactly when the
\* recommended action is not resale (in whatever letter case the label spells
\* it), and is one of the marketplace names when it is.
C6_MarketplaceIffResale ==
    (IsPredict /\ Returned) =>
        /\ result.value.marketplace = None
             <=> result.value.recommended_action \notin CaseVariants(s_resale)
        /\ result.value.recommended_action \in CaseVariants(s_resale)
             => result.value.marketplace \in Marketplaces

\* C6 witness: a resale of a category without a marketplace of its own, at a
\* low value.
C6_Witness ==
    /\ IsPredict /\ Returned
    /\ result.value.recommended_action = s_resale
    /\ result.item.category = s_Books
    /\ result.value.estimated_value <= 200000
    /\ result.value.marketplace = "Walmart Marketplace"

\* C7: for a resale the marketplace follows the priority order: value above
\* 10000 rupees, then value above 2000 rupees, then category Fashion, then
\* category Electronics, then the default.
C7_MarketplacePriority ==
    (IsPredict /\ Returned /\ result.value.recommended_action = s_resale) =>
        LET v == result.value.estimated_value
            c == result.item.category
            m == result.value.marketplace
        IN  /\ v > 1000000 => m = "Flipkart"
            /\ (v > 200000 /\ v <= 1000000) => m = "Flipkart 2GUD"
            /\ (v <= 200000 /\ c = s_Fashion) => m = "Myntra"
            /\ (v <= 200000 /\ c = s_Electronics) => m = "Amazon Renewed"
            /\ (v <= 200000 /\ c \notin {s_Fashion, s_Electronics}) =>
                   m = "Walmart Marketplace"

\* C7 witness: a Fashion resale worth exactly 2000 rupees goes to Myntra.
C7_Witness ==
    /\ IsPredict /\ Returned
    /\ result.value.recommended_action = s_resale
    /\ result.item.category = s_Fashion
    /\ result.value.estimated_value = 200000
    /\ result.value.marketplace = "Myntra"

\* C8 as claimed: a resale of an Electronics record priced 15000 goes to
\* Flipkart and a resale of a Fashion record priced 1500 goes to Myntra,
\* whatever the condition and the market demand.
C8_LiteralMarketplaces ==
    (IsPredict /\ Returned /\ result.value.recommended_action = s_resale) =>
        /\ (result.item.original_price = 15000 /\ result.item.category = s_Electronics)
              => result.value.marketplace = "Flipkart"
        /\ (result.item.original_price = 1500 /\ result.item.category = s_Fashion)
              => result.value.marketplace = "Myntra"

\* C8 amended: the Electronics record priced 15000 goes to Flipkart exactly
\* when its condition is new and its market demand is not low (its estimated
\* value then exceeds 10000), and to Flipkart 2GUD or Amazon Renewed otherwise;
\* the Fashion record priced 1500 goes to Myntra whatever the condition and the
\* market demand.
C8_MarketplacesByValue ==
    (IsPredict /\ Returned /\ result.value.recommended_action = s_resale) =>
        /\ (result.item.original_price = 15000 /\ result.item.category = s_Electronics)
              => /\ result.value.marketplace = "Flipkart"
                      <=> /\ result.item.condition \in CaseVariants(s_new)
                          /\ result.item.market_demand \notin CaseVariants(s_low)
                 /\ result.value.marketplace
                      \in {"Flipkart", "Flipkart 2GUD", "Amazon Renewed"}
        /\ (result.item.original_price = 1500 /\ result.item.category = s_Fashion)
              => result.value.marketplace = "Myntra"

\* C8 witness: the Electronics record priced 15000, new, in low demand, is
\* worth 9000 and goes to Flipkart 2GUD.
C8_Witness ==
    /\ IsPredict /\ Returned
    /\ result.value.recommended_action = s_resale
    /\ result.item.original_price = 15000
    /\ result.item.category = s_Electronics
    /\ result.item.condition = s_new
    /\ result.item.market_demand = s_low
    /\ result.value.estimated_value = 900000
    /\ result.value.marketplace = "Flipkart 2GUD"

\* C9: the estimated value is never negative, and is 0 when the action is
\* donate, whatever the condition, the market demand and the action string.
C9_EstimatedValue ==
    (IsPredict /\ Returned) =>
        /\ result.value.estimated_value >= 0
        /\ result.value.recommended_action \in CaseVariants(s_donate)
              => result.value.estimated_value = 0

\* C9 witness: a donation of a new record priced 25000 in high demand.
C9_Witness ==
    /\ IsPredict /\ Returned
    /\ result.value.recommended_action = s_donate
    /\ result.item.original_price = 25000
    /\ result.item.condition = s_new
    /\ result.item.market_demand = s_high
    /\ result.value.estimated_value = 0

\* s spells the lower-case word w in some letter case.
Spells(s, w) ==
    /\ Len(s) = Len(w)
    /\ \A i \in 1..Len(w) : s[i] \in {w[i], UpperChar(w[i])}

\* C10: _encode_condition gives every string a score in [0,1]: the six condition
\* names, in any letter case, their scores, and every other string 0.5.
C10_EncodeCondition ==
    result.op = "_encode_condition" =>
        /\ Returned
        /\ result.value \in 0..10
        /\ Spells(input, s_new) => result.value = 10
        /\ Spells(input, s_lightly_used) => result.value = 8
        /\ Spells(input, s_good) => result.value = 6
        /\ Spells(input, s_fair) => result.value = 4
        /\ Spells(input, s_poor) => result.value = 2
        /\ Spells(input, s_defective) => result.value = 0
        /\ (\A w \in ConditionNames : ~Spells(input, w)) => result.value = 5

\* C10 witness: a condition name in mixed case got the score of the name.
C10_Witness ==
    /\ result.op = "_encode_condition"
    /\ Spells(input, s_lightly_used)
    /\ input # s_lightly_used
    /\ result.value = 8

\* The features the claim leaves out of the range: raw price, ages, price ratio.
C11_Excepted == {"original_price", "customer_age", "item_age_days", "price_per_age"}

\* The features that are counts or calendar numbers.
C11_Counted == {"return_month", "return_quarter", "material_count", "reason_length"}

\* C11 as claimed: every feature other than the raw price, the ages and
\* price_per_age is in [0,1].
C11_FeaturesInUnitRange ==
    result.op = "create_features" =>
        \A f \in DOMAIN result.value \ C11_Excepted :
            result.value[f] >= 0 /\ result.value[f] <= 10

\* C11 amended: every feature other than the raw price, the ages, price_per_age,
\* return_month, return_quarter, material_count and reason_length is in [0,1];
\* return_month is in 1..12, return_quarter in 1..4, and material_count and
\* reason_length are lengths, 0 or more.
C11_ScoresInUnitRange ==
    result.op = "create_features" =>
        /\ \A f \in DOMAIN result.value \ (C11_Excepted \cup C11_Counted) :
              result.value[f] >= 0 /\ result.value[f] <= 10
        /\ result.value.return_month >= 10 /\ result.value.return_month <= 120
        /\ result.value.return_quarter >= 10 /\ result.value.return_quarter <= 40
        /\ result.value.material_count >= 0
        /\ result.value.reason_length >= 0

\* C11 witness: the features of an item returned on a weekend in April, of three
\* materials: month 4, quarter 2, is_weekend 1.0, material_count 3.
C11_Witness ==
    /\ result.op = "create_features"
    /\ result.value.return_month = 40
    /\ result.value.return_quarter = 20
    /\ result.value.is_weekend = 10
    /\ result.value.material_count = 30
    /\ result.value.reason_sentiment = 2

\* The four actions of the specification.
C12_Actions == {s_resale, s_repair, s_recycle, s_donate}

\* C12: the recommended_action of every PredictionResult is resale, repair,
\* recycle or donate, whatever labels the training samples carried.
C12_ActionIsKnown ==
    (IsPredict /\ Returned) => result.value.recommended_action \in C12_Actions

IsRisk == result.op \in {"calculate_risk_score", "assess_risk"}

\* C13: every component score is at most 100 and the overall score is in
\* [0,100], whatever the values of the five fields.
C13_RiskScoresBounded ==
    IsRisk =>
        /\ \A c \in DOMAIN result.value.component_scores :
              result.value.component_scores[c] <= 100 * 42
        /\ result.value.overall_score >= 0
        /\ result.value.overall_score <= 1000

\* What C13 says, of the mappings whose fields are all 0 or more.
C13_BoundedOnNonNegative ==
    (IsRisk /\ \A k \in DOMAIN input : input[k] >= 0) =>
        /\ \A c \in DOMAIN result.value.component_scores :
              /\ result.value.component_scores[c] >= 0
              /\ result.value.component_scores[c] <= 100 * 42
        /\ result.value.overall_score >= 0
        /\ result.value.overall_score <= 1000

\* C14: the risk_level is the tier of the overall_score returned with it.
C14_LevelAgreesWithScore ==
    IsRisk =>
        LET s == result.value.overall_score
            l == result.value.risk_level
        IN  /\ l = "Critical" <=> s >= 800
            /\ l = "High" <=> (s >= 600 /\ s < 800)
            /\ l = "Medium" <=> (s >= 400 /\ s < 600)
            /\ l = "Low" <=> s < 400

\* The messages of a recommendations list.
C15_Messages(recommendations) ==
    { recommendations[i] : i \in DOMAIN recommendations }

\* C15: the recommendations hold the urgent message exactly when the overall
\* score is 80 or more, that is when the tier is Critical, and the message of a
\* component exactly when its score exceeds 70.
C15_Recommendations ==
    IsRisk =>
        LET msgs == C15_Messages(result.value.recommendations)
        IN  /\ UrgentMessage \in msgs <=> result.value.overall_score >= 800
            /\ UrgentMessage \in msgs <=> result.value.risk_level = "Critical"
            /\ \A c \in DOMAIN RiskMessages :
                  RiskMessages[c] \in msgs <=> result.value.component_scores[c] > 70 * 42

\* What C15 says of the component messages.
C15_ComponentMessages ==
    IsRisk =>
        LET msgs == C15_Messages(result.value.recommendations)
        IN  \A c \in DOMAIN RiskMessages :
               RiskMessages[c] \in msgs <=> result.value.component_scores[c] > 70 * 42

IsDetect == result.op \in {"detect", "detect_anomalies"}

\* The detector has been fitted.
Fitted == "daily_mean" \in DOMAIN anomaly_detector.baseline_stats

\* The anomalies of a type and a key in a returned list.
AnomaliesOf(anomalies, type, key) ==
    SelectSeq(anomalies, LAMBDA a : a.type = type /\ a.key = key)

\* The daily total of a date of a frame.
DailyTotal(df, date) == SumCounts({ r \in df : r.date = date })

\* C16: with a baseline whose daily standard deviation is 0, detect returns, and
\* returns no volume anomaly, whatever the current data.
C16_ZeroStdNoVolumeAnomaly ==
    (IsDetect /\ Fitted
       /\ anomaly_detector.baseline_stats.daily_std[1] = 0
       /\ anomaly_detector.baseline_stats.daily_std[2] # 0) =>
        /\ Returned
        /\ \A i \in DOMAIN result.value : result.value[i].type # "volume_anomaly"

\* What C16 says of failures: with a zero standard deviation detect returns.
C16_ZeroStdReturns ==
    (IsDetect /\ Fitted
       /\ anomaly_detector.baseline_stats.daily_std[1] = 0
       /\ anomaly_detector.baseline_stats.daily_std[2] # 0) => Returned

\* The z-score of a daily total against a baseline of mean a / b and squared
\* deviation p / q > 0 is above bound (in tenths):
\* (total - a / b)^2 > (bound / 10)^2 * p / q.
C17_ZAbove(total, stats, bound) ==
    LET a == stats.daily_mean[1]
        b == stats.daily_mean[2]
        p == stats.daily_std[1]
        q == stats.daily_std[2]
    IN  100 * q * (total * b - a) * (total * b - a) > bound * bound * p * b * b

\* C17: with a non-zero baseline standard deviation, detect returns exactly one
\* volume anomaly for each date whose z-score is above 2.5 and none for another
\* date, of severity high when the z-score is above 3 and medium otherwise.
C17_VolumeAnomalies ==
    (IsDetect /\ Fitted
       /\ anomaly_detector.baseline_stats.daily_std[1] # 0
       /\ anomaly_detector.baseline_stats.daily_std[2] # 0) =>
        /\ Returned
        /\ \A i \in DOMAIN result.value :
              result.value[i].type = "volume_anomaly"
                 => result.value[i].key \in FrameDates(result.frame)
        /\ \A d \in FrameDates(result.frame) :
              LET found == AnomaliesOf(result.value, "volume_anomaly", d)
                  total == DailyTotal(result.frame, d)
                  stats == anomaly_detector.baseline_stats
              IN  IF C17_ZAbove(total, stats, 25)
                  THEN /\ Len(found) = 1
                       /\ found[1].value = total
                       /\ found[1].severity =
                            IF C17_ZAbove(total, stats, 30) THEN "high" ELSE "medium"
                  ELSE found = <<>>

\* C17 witness: against a baseline of mean 10 and deviation 2, a date of total
\* 15 (z = 2.5) is not flagged and a date of total 16 (z = 3) is flagged medium.
C17_Witness ==
    /\ IsDetect /\ Returned /\ Fitted
    /\ anomaly_detector.baseline_stats.daily_mean = <<30, 3>>
    /\ anomaly_detector.baseline_stats.daily_std = <<24, 6>>
    /\ DailyTotal(result.frame, 4) = 15
    /\ AnomaliesOf(result.value, "volume_anomaly", 4) = <<>>
    /\ DailyTotal(result.frame, 5) = 16
    /\ Len(AnomaliesOf(result.value, "volume_anomaly", 5)) = 1
    /\ AnomaliesOf(result.value, "volume_anomaly", 5)[1].severity = "medium"

\* The deviation of a category count from a baseline mean s / k > 0 is above
\* bound (in tenths).
C18_DeviationAbove(count, mean, bound) ==
    10 * Abs(count * mean[2] - mean[1]) > bound * mean[1]

\* C18: detect on a fitted detector returns, with a category anomaly for exactly
\* the categories of the current data whose baseline mean is above 0 and whose
\* count deviates from it by more than 0.5 of it, of severity high when the
\* deviation is above 1.0 and medium otherwise; a category whose baseline mean
\* is 0 or missing has none.
C18_CategoryAnomalies ==
    (IsDetect /\ Fitted) =>
        /\ Returned
        /\ \A i \in DOMAIN result.value :
              result.value[i].type = "category_anomaly"
                 => result.value[i].key \in FrameCategories(result.frame)
        /\ \A c \in FrameCategories(result.frame) :
              LET found == AnomaliesOf(result.value, "category_anomaly", c)
                  count == SumCounts({ r \in result.frame : r.category = c })
                  means == anomaly_detector.baseline_stats.category_means
              IN  IF c \in DOMAIN means /\ means[c][1] > 0
                       /\ C18_DeviationAbove(count, means[c], 5)
                  THEN /\ Len(found) = 1
                       /\ found[1].value = count
                       /\ found[1].severity =
                            IF C18_DeviationAbove(count, means[c], 10)
                            THEN "high" ELSE "medium"
                  ELSE found = <<>>

\* C18 witness: a category of baseline mean 10 and count 20 (deviation 1.0) is
\* flagged medium, next to a category of baseline mean 0 and count 10 that is
\* not flagged.
C18_Witness ==
    /\ IsDetect /\ Returned /\ Fitted
    /\ s_Fashion \in DOMAIN anomaly_detector.baseline_stats.category_means
    /\ anomaly_detector.baseline_stats.category_means[s_Fashion][1] = 0
    /\ s_Electronics \in DOMAIN anomaly_detector.baseline_stats.category_means
    /\ anomaly_detector.baseline_stats.category_means[s_Electronics] = <<30, 3>>
    /\ SumCounts({ r \in result.frame : r.category = s_Electronics }) = 20
    /\ SumCounts({ r \in result.frame : r.category = s_Fashion }) = 10
    /\ Len(AnomaliesOf(result.value, "category_anomaly", s_Electronics)) = 1
    /\ AnomaliesOf(result.value, "category_anomaly", s_Electronics)[1].severity = "medium"
    /\ AnomaliesOf(result.value, "category_anomaly", s_Fashion) = <<>>

\* Two fractions are the same float (NaN when the denominator is 0).
SameFraction(x, y) ==
    IF x[2] = 0 \/ y[2] = 0 THEN x[2] = 0 /\ y[2] = 0
    ELSE x[1] * y[2] = y[1] * x[2]

\* C19: fit sets daily_mean and daily_std to the mean and the standard deviation
\* of the daily totals of the historical data, the quantity detect compares
\* with them.
C19_BaselineOfDailyTotals ==
    result.op = "fit" =>
        LET D == FrameDates(result.frame)
            totals == [d \in D |-> DailyTotal(result.frame, d)]
            daily == MeanAndVariance(totals, D, 1)
        IN  /\ SameFraction(anomaly_detector.baseline_stats.daily_mean, daily.mean)
            /\ SameFraction(anomaly_detector.baseline_stats.daily_std, daily.variance)

\* What C19 says, of historical data with one row for each date.
C19_BaselineOfSingleRows ==
    (result.op = "fit"
       /\ \A d \in FrameDates(result.frame) :
             Cardinality({ r \in result.frame : r.date = d }) = 1) =>
        LET D == FrameDates(result.frame)
            totals == [d \in D |-> DailyTotal(result.frame, d)]
            daily == MeanAndVariance(totals, D, 1)
        IN  /\ SameFraction(anomaly_detector.baseline_stats.daily_mean, daily.mean)
            /\ SameFraction(anomaly_detector.baseline_stats.daily_std, daily.variance)

\* The exceptions of the model that are of a kind the specification names:
\* NotTrainedError is the "must be trained" ValueError, InsufficientDataError
\* the ValueError of the split and of the cross-validation on too few samples
\* of a class.
C20_ErrorKinds == {ErrNotTrained, ErrSplit, ErrCrossVal}

\* C20: every operation of the engine returns or fails with an error of one of
\* the four kinds, detect_anomalies before any fit included.
C20_ReturnsOrKnownError ==
    result.op # "none" => result.error \in {None} \cup C20_ErrorKinds

\* base_time[action], with 3 for an unknown action.
C23_BaseTime(action) ==
    IF Spells(action, s_resale) THEN 2
    ELSE IF Spells(action, s_repair) THEN 5
    ELSE IF Spells(action, s_recycle) THEN 1
    ELSE 3

\* category_multiplier[category] in tenths, with 1.0 for an unknown category.
C23_Multiplier(category) ==
    IF category = s_Electronics THEN 13
    ELSE IF category = s_Appliances THEN 15
    ELSE IF category = s_Fashion THEN 8
    ELSE 10

\* C23: the processing time is base_time[action] x category_multiplier[category]
\* rounded to the nearest integer, an exact half upwards, and at least 1.
C23_ProcessingTimeHalfUp ==
    (IsPredict /\ Returned) =>
        LET product == C23_BaseTime(result.value.recommended_action)
                         * C23_Multiplier(result.item.category)
        IN  result.value.processing_time = Max2(1, (product + 5) \div 10)

\* What C23 says of the range: the processing time is an integer of 1 or more,
\* within half a day of the product when the product is 1 or more.
C23_ProcessingTimeNearest ==
    (IsPredict /\ Returned) =>
        LET product == C23_BaseTime(result.value.recommended_action)
                         * C23_Multiplier(result.item.category)
        IN  /\ result.value.processing_time \in Nat
            /\ result.value.processing_time >= 1
            /\ product >= 10 => Abs(10 * result.value.processing_time - product) <= 5

\* The predicted values of a returned forecast.
C24_Predictions ==
    [i \in DOMAIN result.value.predictions |->
        result.value.predictions[i].predicted_value \div 1000]

\* C24: the seasonality factor of a forecast (in thousandths, rounded down) is
\* in [0, 1]; it is 0 when there are fewer than 4 periods or the mean of the
\* predictions is 0 or less, and min(variance / mean^2, 1) otherwise, where
\* variance / mean^2 = (n * sum of squares - sum^2) / sum^2.
C24_SeasonalityFactor ==
    (IsForecast /\ Returned) =>
        LET preds == C24_Predictions
            n == Len(preds)
            sum == SumSeq(preds)
            squares == SumSeq([i \in 1..n |-> preds[i] * preds[i]])
            ratio == n * squares - sum * sum
            factor == result.value.seasonality_factor
        IN  /\ factor >= 0 /\ factor <= 1000
            /\ (n < 4 \/ sum <= 0) => factor = 0
            /\ (n >= 4 /\ sum > 0) =>
                  IF ratio >= sum * sum THEN factor = 1000
                  ELSE /\ factor * sum * sum <= 1000 * ratio
                       /\ 1000 * ratio < (factor + 1) * sum * sum

\* C24 witness: four periods predicted 3, 3, 3 and -1 (mean 2, variance 3) have
\* the seasonality factor 0.75.
C24_Witness ==
    /\ IsForecast /\ Returned
    /\ C24_Predictions = <<3, 3, 3, -1>>
    /\ result.value.seasonality_factor = 750

\* C24 witness of the clamp: four periods predicted 3, 3, -1 and -1 (mean 1,
\* variance 4) have the seasonality factor 1.
C24_WitnessClamped ==
    /\ IsForecast /\ Returned
    /\ C24_Predictions = <<3, 3, -1, -1>>
    /\ result.value.seasonality_factor = 1000

\* C25: train of the forecaster splits the series in its order: the fitting
\* part is the first floor(0.8 * n) rows, the held-out part the rows after them,
\* so that every row is in exactly one part, and both parts are non-empty when
\* train completes on a non-empty series.
C25_ChronologicalSplit ==
    result.op = "forecaster_train" =>
        LET n == result.n_rows
            k == (4 * n) \div 5
        IN  /\ result.X_train = [i \in 1..k |-> i]
            /\ result.X_test = [i \in 1..(n - k) |-> k + i]
            /\ result.X_train \o result.X_test = Series(n)
            /\ (Returned /\ n > 0) => (result.X_train # <<>> /\ result.X_test # <<>>)

\* C25 witness: a train that completes on a series of three rows, fitted on the
\* first two and evaluated on the third.
C25_Witness ==
    /\ result.op = "forecaster_train" /\ Returned
    /\ result.n_rows = 3
    /\ result.X_train = <<1, 2>>
    /\ result.X_test = <<3>>

IsHubAssignment == result.op = "optimize_hub_assignment"

\* The capacity of a hub of the call.
CapacityOf(hub_id) ==
    result.hub_capacities[Lookup(result.hub_capacities, hub_id)][2]

HubsOfCall == { result.hub_capacities[i][1] : i \in DOMAIN result.hub_capacities }

\* C29: optimize_hub_assignment does not fail, returns one list for each hub of
\* hub_capacities, records every item once in all, and records each item under
\* a hub of greatest capacity among the hubs of capacity above 0, or under the
\* first hub when there is none.
C29_EveryItemAssigned ==
    IsHubAssignment =>
        /\ Returned
        /\ DOMAIN result.value = HubsOfCall
        /\ SumOver([h \in HubsOfCall |-> Len(result.value[h])], HubsOfCall)
              = Len(result.return_items)
        /\ \A h \in HubsOfCall :
              result.value[h] # <<>> =>
                 IF \E g \in HubsOfCall : CapacityOf(g) > 0
                 THEN /\ CapacityOf(h) > 0
                      /\ \A g \in HubsOfCall : CapacityOf(g) <= CapacityOf(h)
                 ELSE h = result.hub_capacities[1][1]

\* What C29 says, of calls with at least one hub.
C29_EveryItemAssignedToAHub ==
    (IsHubAssignment /\ result.hub_capacities # <<>>) =>
        /\ Returned
        /\ DOMAIN result.value = HubsOfCall
        /\ SumOver([h \in HubsOfCall |-> Len(result.value[h])], HubsOfCall)
              = Len(result.return_items)
        /\ \A h \in HubsOfCall :
              result.value[h] # <<>> =>
                 IF \E g \in HubsOfCall : CapacityOf(g) > 0
                 THEN /\ CapacityOf(h) > 0
                      /\ \A g \in HubsOfCall : CapacityOf(g) <= CapacityOf(h)
                 ELSE h = result.hub_capacities[1][1]

\* C30: when the hubs' total capacity is at least the number of items, no hub
\* is assigned more items than its capacity, and no item is assigned to a hub
\* of capacity 0 while another hub has free capacity.
C30_WithinCapacity ==
    (IsHubAssignment /\ Returned
       /\ SumOver([h \in HubsOfCall |-> CapacityOf(h)], HubsOfCall)
             >= Len(result.return_items)) =>
        /\ \A h \in HubsOfCall : Len(result.value[h]) <= CapacityOf(h)
        /\ \A h \in HubsOfCall :
              (CapacityOf(h) = 0 /\ result.value[h] # <<>>) =>
                 \A g \in HubsOfCall : Len(result.value[g]) >= CapacityOf(g)

\* What C30 says of the hubs of capacity 0.
C30_NoItemOnClosedHub ==
    (IsHubAssignment /\ Returned
       /\ SumOver([h \in HubsOfCall |-> CapacityOf(h)], HubsOfCall)
             >= Len(result.return_items)) =>
        \A h \in HubsOfCall : CapacityOf(h) = 0 => result.value[h] = <<>>

\* C27: a train call that fails leaves the predictor as it was before the call.
C27_FailedTrainLeavesPolicy ==
    [][ (result'.op = "train" /\ result'.error # None) =>
            disposition_predictor' = disposition_predictor ]_vars

\* What C27 concludes: a trained predictor decodes with the label encoding of
\* the samples its classifier was fitted on.
C27_EncodingOfClassifier ==
    disposition_predictor.is_trained =>
        disposition_predictor.label_encoder = disposition_predictor.model

\* C21: load_models of the file save_models wrote makes the five attributes of
\* the loading engine, whatever they were, those of the engine that was saved,
\* so that predict_disposition has the same outcomes for every record as on the
\* saved engine.
C21_LoadRestoresSaved ==
    (result.op = "load_models" /\ Returned) =>
        /\ history.saved # <<>>
        /\ EngineState = history.saved[1]
        /\ \A item \in Items :
              PredictOutcomes(disposition_predictor, item)
                 = PredictOutcomes(history.saved[1].disposition_predictor, item)

\* C21 witness: a load into an engine of which the predictor, the forecaster,
\* the detector and models_trained all differed from the saved ones, and which
\* is trained and fitted after it.
C21_Witness ==
    /\ result.op = "load_models" /\ Returned
    /\ result.previous.disposition_predictor # disposition_predictor
    /\ result.previous.value_forecaster # value_forecaster
    /\ result.previous.anomaly_detector # anomaly_detector
    /\ result.previous.models_trained # models_trained
    /\ disposition_predictor.is_trained
    /\ value_forecaster.is_trained
    /\ "daily_mean" \in DOMAIN anomaly_detector.baseline_stats
    /\ models_trained

\* C26: models_trained implies that the predictor and the forecaster are
\* trained and the anomaly detector is fitted.
C26_ModelsTrainedMeansAllTrained ==
    models_trained =>
        /\ disposition_predictor.is_trained
        /\ value_forecaster.is_trained
        /\ "daily_mean" \in DOMAIN anomaly_detector.baseline_stats

\* What C26 says of a train_models call with the three datasets.
C26_AllDatasetsTrainAll ==
    (result.op = "train_models" /\ Returned
       /\ result.value = {"disposition", "forecasting", "anomaly_detection"}) =>
        /\ models_trained
        /\ disposition_predictor.is_trained
        /\ value_forecaster.is_trained
        /\ "daily_mean" \in DOMAIN anomaly_detector.baseline_stats

\* C22: a predict call changes nothing of the predictor, and between two train
\* calls every predict call on a record returns the same PredictionResult,
\* whatever other records were given to predict in between.
C22_PredictReadOnly ==
    /\ [](\A item \in Items : Cardinality(history.returned[item]) <= 1)
    /\ [][result'.op = "predict" => disposition_predictor' = disposition_predictor]_vars

\* C22 witness: a trained predictor was given one record twice and the other
\* record in between or before, and has returned one result for each, with
\* different actions.
C22_Witness ==
    /\ disposition_predictor.is_trained
    /\ result.op = "predict" /\ Returned
    /\ \E a, b \in Items :
          /\ a # b
          /\ result.item = a
          /\ history.calls[a] = 2 /\ history.calls[b] >= 1
          /\ Cardinality(history.returned[a]) = 1
          /\ Cardinality(history.returned[b]) = 1
          /\ \E x \in history.returned[a], y \in history.returned[b] :
                /\ x.error = None /\ y.error = None
                /\ x.value.recommended_action # y.value.recommended_action

IsRequest ==
    result.op \in {"POST /predict/disposition", "POST /forecast/demand",
                   "POST /detect/anomalies"}

\* C28: no prediction, forecast or anomaly request is handled while a training
\* task has started and not ended, so that none sees a predictor of which only
\* a part is of the training in progress.
C28_NoRequestDuringTraining ==
    IsRequest =>
        /\ result.observed.training = <<>>
        /\ LET seen == result.observed.engine.disposition_predictor
           IN  seen.is_trained => /\ seen.label_encoder = seen.model
                                  /\ seen.scaler

\* C28 witness: a prediction request handled with 200 by the retrained engine
\* while another training task waits.
C28_Witness ==
    /\ result.op = "POST /predict/disposition"
    /\ result.status = 200
    /\ result.observed.engine.disposition_predictor.label_encoder = <<s_repair, s_resale>>
    /\ model_file # <<>>
    /\ event_loop.pending > 0
    /\ event_loop.running = <<>>

=============================================================================
